---- MODULE Spec2Model ----
(***************************************************************************)
(* check-dist: a model of src/check_dist/_core.py and src/check_dist/_cli.py *)
(*                                                                         *)
(* Strings are sequences of one-character strings, so that endswith,       *)
(* startswith, basename, strip and glob matching are computed character by *)
(* character, as the Python code computes them.                            *)
(***************************************************************************)
EXTENDS Integers, Sequences, FiniteSets, TLC

VARIABLES
    \* one call of matches_pattern
    m_pc,        \* "call" before the call, "done" after it
    m_plat,      \* the platform family of the interpreter
    m_file,      \* the filepath argument
    m_pattern,   \* the pattern argument
    m_result,    \* the value returned
    m_translated, \* the value translate_extension returns
    m_again,     \* the value translate_extension returns for m_translated
    \* one call of _sdist_expected_files
    e_pc,        \* "call", "based" (step 1 done), "excluded" (step 2 done), "done"
    e_plat,      \* the platform family of the interpreter
    e_vcs,       \* the vcs_files argument
    e_hatch,     \* the hatch_config argument
    e_expected,  \* the local variable expected
    \* one run of the command line: main calls check_dist, which may call build_dists
    pc,             \* the place the run has reached
    sys_platform,   \* the platform family of the interpreter
    a_pre_built,    \* args.pre_built, None or a directory
    a_rebuild,      \* args.rebuild
    a_no_isolation, \* args.no_isolation
    a_verbose,      \* args.verbose
    fs,             \* the directories under source_dir and the temporary directory
    config,         \* check_dist's local config
    hatch,          \* check_dist's local hatch_config
    pre_built,      \* check_dist's parameter and local pre_built
    sdist_path,     \* check_dist's local sdist_path, None or a path
    wheel_path,     \* check_dist's local wheel_path, None or a path
    tmpdir,         \* the temporary directory: "none", "exists", "removed"
    releases,       \* how many times tmpdir_ctx.__exit__ was called
    runs,           \* the commands build_dists ran, with their outcomes
    built_any,      \* build_dists' local built_any
    warnings,       \* build_dists' local warnings
    sdist_files,    \* check_dist's local sdist_files
    wheel_files,    \* check_dist's local wheel_files
    vcs_status,     \* how get_vcs_files ended: "unqueried", "listed", or the failure
    tracked,        \* the list get_vcs_files returned
    ran,            \* the checks that have run, in order
    messages,       \* check_dist's local messages
    errors,         \* check_dist's local errors
    raised,         \* the exception in flight, "none" if there is none
    success,        \* the first component of check_dist's result
    exit_code,      \* the argument of sys.exit, None before it is called
    stdout,         \* what was printed on standard output
    stderr,         \* what was printed on standard error
    \* one call of a checking helper
    k_pc,               \* "call" before the call, then the name of the function called
    k_plat,             \* the platform family of the interpreter
    k_files,            \* the files argument
    k_patterns,         \* the patterns argument
    k_present_patterns, \* the present_patterns argument of check_absent
    k_vcs,              \* the vcs_files argument of check_sdist_vs_vcs
    k_hatch,            \* the hatch_config argument of check_sdist_vs_vcs
    k_path,             \* the path of the archive that is listed
    k_members,          \* the members of the archive that is listed
    k_listing,          \* the list list_sdist_files or list_wheel_files returns
    k_dir,              \* the directory find_dist_files scans
    k_found,            \* the pair find_dist_files returns
    k_errors,           \* the list returned
    \* a call of load_config, copier_defaults or _filter_extras_by_hatch
    c_pc,               \* "call" before the call, then the name of the function called
    c_pyproject,        \* pyproject.toml as load_config finds it
    c_answers,          \* .copier-answers.yaml, or the copier_config argument
    c_source_dir,       \* TRUE when load_config is given source_dir
    c_hatch_given,      \* TRUE when copier_defaults is given hatch_config
    c_hatch,            \* the hatch_config argument
    c_extras,           \* the extras argument of _filter_extras_by_hatch
    c_kept,             \* the list _filter_extras_by_hatch returns
    c_none,             \* TRUE when copier_defaults returns None
    c_config,           \* the configuration returned
    c_raised            \* the exception that leaves the call, "none" if none

matchVars == <<m_pc, m_plat, m_file, m_pattern, m_result, m_translated, m_again>>

expVars == <<e_pc, e_plat, e_vcs, e_hatch, e_expected>>

mainVars ==
    <<pc, sys_platform, a_pre_built, a_rebuild, a_no_isolation, a_verbose, fs, config, hatch,
      pre_built, sdist_path, wheel_path, tmpdir, releases, runs, built_any, warnings,
      sdist_files, wheel_files, vcs_status, tracked, ran, messages, errors, raised, success,
      exit_code,
      stdout, stderr>>

checkVars ==
    <<k_pc, k_plat, k_files, k_patterns, k_present_patterns, k_vcs, k_hatch, k_path, k_members,
      k_listing, k_dir, k_found, k_errors>>

configVars ==
    <<c_pc, c_pyproject, c_answers, c_source_dir, c_hatch_given, c_hatch, c_extras, c_kept,
      c_none, c_config, c_raised>>

vars == <<matchVars, expVars, mainVars, checkVars, configVars>>

\* ------------------------------------------------------------------ bounds

\* longest file path stem (before an optional platform suffix) that is enumerated
MaxPathLen == 3
\* longest pattern stem (before an optional platform suffix) that is enumerated
MaxPatLen == 2
\* most files in an enumerated VCS file list
MaxVcsFiles == 2
\* most entries in an enumerated directory listing
MaxDirEntries == 2
\* most files in an enumerated archive listing given to a checking helper
MaxCheckFiles == 2
\* most patterns in an enumerated pattern list given to a checking helper
MaxCheckPatterns == 2

\* ------------------------------------------------------- string primitives

SeqMin(S) == CHOOSE x \in S : \A y \in S : x <= y

SeqMax(S) == CHOOSE x \in S : \A y \in S : x >= y

\* str.startswith
StartsWith(s, pre) ==
    /\ Len(pre) <= Len(s)
    /\ SubSeq(s, 1, Len(pre)) = pre

\* str.endswith
EndsWith(s, suf) ==
    /\ Len(suf) <= Len(s)
    /\ SubSeq(s, Len(s) - Len(suf) + 1, Len(s)) = suf

\* the `in` operator on two strings
Contains(s, sub) ==
    \E i \in 1..(Len(s) - Len(sub) + 1) : SubSeq(s, i, i + Len(sub) - 1) = sub

\* str.lstrip("/")
LStripSlash(s) ==
    LET keep == {i \in 1..Len(s) : s[i] # "/"}
    IN  IF keep = {} THEN <<>> ELSE SubSeq(s, SeqMin(keep), Len(s))

\* str.rstrip("/")
RStripSlash(s) ==
    LET keep == {i \in 1..Len(s) : s[i] # "/"}
    IN  IF keep = {} THEN <<>> ELSE SubSeq(s, 1, SeqMax(keep))

\* str.strip("/")
StripSlash(s) == LStripSlash(RStripSlash(s))

\* os.path.basename: what follows the last separator
basename(s) ==
    LET seps == {i \in 1..Len(s) : s[i] = "/"}
    IN  IF seps = {} THEN s ELSE SubSeq(s, SeqMax(seps) + 1, Len(s))

\* the characters of a string, as a set
Chars(s) == {s[i] : i \in 1..Len(s)}

\* the code point of each character that file names and patterns are written in
\* (str comparison, str.lower)
CharCode ==
    ("!" :> 33) @@ ("*" :> 42) @@ ("-" :> 45) @@ ("." :> 46) @@ ("/" :> 47) @@ ("0" :> 48) @@
    ("1" :> 49) @@ ("2" :> 50) @@ ("3" :> 51) @@ ("4" :> 52) @@ ("5" :> 53) @@ ("6" :> 54) @@
    ("7" :> 55) @@ ("8" :> 56) @@ ("9" :> 57) @@ ("?" :> 63) @@ ("A" :> 65) @@ ("B" :> 66) @@
    ("C" :> 67) @@ ("D" :> 68) @@ ("E" :> 69) @@ ("F" :> 70) @@ ("G" :> 71) @@ ("H" :> 72) @@
    ("I" :> 73) @@ ("J" :> 74) @@ ("K" :> 75) @@ ("L" :> 76) @@ ("M" :> 77) @@ ("N" :> 78) @@
    ("O" :> 79) @@ ("P" :> 80) @@ ("Q" :> 81) @@ ("R" :> 82) @@ ("S" :> 83) @@ ("T" :> 84) @@
    ("U" :> 85) @@ ("V" :> 86) @@ ("W" :> 87) @@ ("X" :> 88) @@ ("Y" :> 89) @@ ("Z" :> 90) @@
    ("[" :> 91) @@ ("\\" :> 92) @@ ("]" :> 93) @@ ("_" :> 95) @@ ("a" :> 97) @@ ("b" :> 98) @@
    ("c" :> 99) @@ ("d" :> 100) @@ ("e" :> 101) @@ ("f" :> 102) @@ ("g" :> 103) @@ ("h" :> 104) @@
    ("i" :> 105) @@ ("j" :> 106) @@ ("k" :> 107) @@ ("l" :> 108) @@ ("m" :> 109) @@ ("n" :> 110) @@
    ("o" :> 111) @@ ("p" :> 112) @@ ("q" :> 113) @@ ("r" :> 114) @@ ("s" :> 115) @@ ("t" :> 116) @@
    ("u" :> 117) @@ ("v" :> 118) @@ ("w" :> 119) @@ ("x" :> 120) @@ ("y" :> 121) @@ ("z" :> 122)

\* chr(): the character with a given code point
CodeChar(n) == CHOOSE c \in DOMAIN CharCode : CharCode[c] = n

\* str.lower on one character
LowerChar(c) ==
    IF CharCode[c] >= CharCode["A"] /\ CharCode[c] <= CharCode["Z"]
    THEN CodeChar(CharCode[c] - CharCode["A"] + CharCode["a"])
    ELSE c

\* the < of Python on two strings: lexicographic by code point
StrLess(a, b) ==
    LET n == IF Len(a) < Len(b) THEN Len(a) ELSE Len(b)
        diffs == {i \in 1..n : a[i] # b[i]}
    IN  IF diffs = {} THEN Len(a) < Len(b)
        ELSE LET m == SeqMin(diffs) IN CharCode[a[m]] < CharCode[b[m]]

\* sorted() of a collection of distinct strings
RECURSIVE sorted(_)
sorted(S) ==
    IF S = {} THEN <<>>
    ELSE LET least == CHOOSE x \in S : \A y \in S \ {x} : StrLess(x, y)
         IN  <<least>> \o sorted(S \ {least})

\* the elements of a list, as a set
ToSet(s) == {s[i] : i \in 1..Len(s)}

\* the filter of a list comprehension: the elements of s in T, in the order of s
RECURSIVE Filter(_, _)
Filter(s, T) ==
    IF s = <<>> THEN <<>>
    ELSE (IF Head(s) \in T THEN <<Head(s)>> ELSE <<>>) \o Filter(Tail(s), T)

\* the concatenation of a list of lists
RECURSIVE Flatten(_)
Flatten(ss) == IF ss = <<>> THEN <<>> ELSE Head(ss) \o Flatten(Tail(ss))

\* ------------------------------------------------------ platform families

Platforms == {"win32", "linux", "darwin"}

ExtSo == <<".", "s", "o">>

ExtPyd == <<".", "p", "y", "d">>

ExtDll == <<".", "d", "l", "l">>

ExtDylib == <<".", "d", "y", "l", "i", "b">>

\* _PLATFORM_EXTENSION_MAP: per family, the (source suffix, destination suffix)
\* pairs in the dict's insertion order
_PLATFORM_EXTENSION_MAP ==
    [plat \in Platforms |->
        CASE plat = "win32"  -> << <<ExtSo, ExtPyd>>, <<ExtDylib, ExtDll>> >>
          [] plat = "linux"  -> << <<ExtPyd, ExtSo>>, <<ExtDll, ExtSo>> >>
          [] plat = "darwin" -> << <<ExtPyd, ExtSo>>, <<ExtDll, ExtDylib>> >>]

\* translate_extension that appends the mapped suffix and keeps the foreign one
translate_extension_appends(plat, pattern) ==
    LET mapping == _PLATFORM_EXTENSION_MAP[plat]
        hits == {i \in 1..Len(mapping) : EndsWith(pattern, mapping[i][1])}
    IN  IF hits = {} THEN pattern
        ELSE pattern \o mapping[SeqMin(hits)][2]

\* translate_extension: the first key the string ends with is replaced
translate_extension(plat, pattern) ==
    LET mapping == _PLATFORM_EXTENSION_MAP[plat]
        hits == {i \in 1..Len(mapping) : EndsWith(pattern, mapping[i][1])}
    IN  IF hits = {} THEN pattern
        ELSE LET e == mapping[SeqMin(hits)]
             IN  SubSeq(pattern, 1, Len(pattern) - Len(e[1])) \o e[2]

\* _wrong_platform_extensions: the keys of the family's map, in order
_wrong_platform_extensions(plat) ==
    [i \in 1..Len(_PLATFORM_EXTENSION_MAP[plat]) |-> _PLATFORM_EXTENSION_MAP[plat][i][1]]

\* ------------------------------------------------------------ fnmatch

\* os.path.normcase on one character: ntpath turns "/" into "\\" and lower-cases,
\* posixpath (linux, darwin) returns its argument
normcaseChar(plat, c) ==
    IF plat # "win32" THEN c
    ELSE IF c = "/" THEN "\\" ELSE LowerChar(c)

normcase(plat, s) == [i \in 1..Len(s) |-> normcaseChar(plat, s[i])]

\* fnmatch.translate, "[" case: the index of the "]" closing the class that
\* opens at pat[j], or 0 when there is none (the "[" is then a literal)
ClassEnd(pat, j) ==
    LET n  == Len(pat)
        k1 == IF j + 1 <= n /\ pat[j + 1] = "!" THEN j + 2 ELSE j + 1
        k2 == IF k1 <= n /\ pat[k1] = "]" THEN k1 + 1 ELSE k1
        closers == {k \in k2..n : pat[k] = "]"}
    IN  IF closers = {} THEN 0 ELSE SeqMin(closers)

\* whether character c is in the class pat[j+1 .. e-1] ("!" first negates)
InClass(pat, j, e, c) ==
    LET stuff == SubSeq(pat, j + 1, e - 1)
    IN  IF stuff[1] = "!"
        THEN c \notin Chars(SubSeq(stuff, 2, Len(stuff)))
        ELSE c \in Chars(stuff)

\* fnmatch.fnmatchcase: name[i..] against pat[j..], whole-string match
RECURSIVE GlobFrom(_, _, _, _)
GlobFrom(name, i, pat, j) ==
    IF j > Len(pat) THEN i > Len(name)
    ELSE CASE pat[j] = "*" ->
                \E k \in i..(Len(name) + 1) : GlobFrom(name, k, pat, j + 1)
           [] pat[j] = "?" ->
                i <= Len(name) /\ GlobFrom(name, i + 1, pat, j + 1)
           [] pat[j] = "[" ->
                LET e == ClassEnd(pat, j)
                IN  IF e = 0
                    THEN i <= Len(name) /\ name[i] = "[" /\ GlobFrom(name, i + 1, pat, j + 1)
                    ELSE i <= Len(name) /\ InClass(pat, j, e, name[i])
                         /\ GlobFrom(name, i + 1, pat, e + 1)
           [] OTHER ->
                i <= Len(name) /\ name[i] = pat[j] /\ GlobFrom(name, i + 1, pat, j + 1)

fnmatchcase(name, pat) == GlobFrom(name, 1, pat, 1)

\* fnmatch.fnmatch: both sides through os.path.normcase, then fnmatchcase
fnmatch(plat, name, pat) == fnmatchcase(normcase(plat, name), normcase(plat, pat))

\* ------------------------------------------------------- pattern matching

GlobChars == {"*", "?", "["}

is_glob(s) == Chars(s) \cap GlobChars # {}

\* matches_pattern with the directory alternative written as a bare string
\* prefix test (the separator after the pattern is not required)
matches_pattern_bare_prefix(plat, filepath, pattern) ==
    LET translated == translate_extension(plat, pattern)
    IN  \/ /\ ~is_glob(translated)
           /\ \/ filepath = translated
              \/ StartsWith(filepath, translated)
              \/ basename(filepath) = translated
        \/ fnmatch(plat, filepath, translated)
        \/ fnmatch(plat, basename(filepath), translated)

\* matches_pattern
matches_pattern(plat, filepath, pattern) ==
    LET translated == translate_extension(plat, pattern)
    IN  \/ /\ ~is_glob(translated)
           /\ \/ filepath = translated
              \/ StartsWith(filepath, translated \o <<"/">>)
              \/ basename(filepath) = translated
        \/ fnmatch(plat, filepath, translated)
        \/ fnmatch(plat, basename(filepath), translated)


\* _matches_hatch_pattern with the component alternative written as a bare
\* substring test
_matches_hatch_pattern_substring(plat, filepath, pattern) ==
    LET pat == LStripSlash(pattern)
    IN  \/ filepath = pat
        \/ StartsWith(filepath, RStripSlash(pat) \o <<"/">>)
        \/ Contains(filepath, RStripSlash(pat))
        \/ fnmatch(plat, filepath, pat)
        \/ fnmatch(plat, basename(filepath), pat)

\* _matches_hatch_pattern
_matches_hatch_pattern(plat, filepath, pattern) ==
    LET pat == LStripSlash(pattern)
        component == RStripSlash(pat) \o <<"/">>
    IN  \/ filepath = pat
        \/ StartsWith(filepath, RStripSlash(pat) \o <<"/">>)
        \/ Contains(<<"/">> \o filepath \o <<"/">>, <<"/">> \o component)
        \/ fnmatch(plat, filepath, pat)
        \/ fnmatch(plat, basename(filepath), pat)

\* ------------------------------------------------------- checking helpers

\* check_present that returns at the first pattern not found
check_present_first_only(plat, files, patterns, dist_type) ==
    LET missing == {i \in 1..Len(patterns) :
                       ~\E k \in 1..Len(files) : matches_pattern(plat, files[k], patterns[i])}
        first == patterns[SeqMin(missing)]
    IN  IF missing = {} THEN <<>>
        ELSE << [kind |-> "required", dist |-> dist_type, pattern |-> first,
                 files |-> <<>>,
                 note |-> IF translate_extension(plat, first) # first
                          THEN <<translate_extension(plat, first)>> ELSE <<>>] >>

\* check_present: one error per pattern that no file matches, in pattern order;
\* the error names the translated pattern when translation changed it
check_present(plat, files, patterns, dist_type) ==
    LET err(i) ==
            LET pattern == patterns[i]
                translated == translate_extension(plat, pattern)
            IN  IF \E k \in 1..Len(files) : matches_pattern(plat, files[k], pattern)
                THEN <<>>
                ELSE << [kind |-> "required", dist |-> dist_type, pattern |-> pattern,
                         files |-> <<>>,
                         note |-> IF translated # pattern THEN <<translated>> ELSE <<>>] >>
    IN  Flatten([i \in 1..Len(patterns) |-> err(i)])

\* check_absent that takes no account of the present patterns
check_absent_unshielded(plat, files, patterns, dist_type, present_patterns) ==
    LET err(i) ==
            LET pattern == patterns[i]
                translated == translate_extension(plat, pattern)
                matching == Filter(files, {f \in ToSet(files) : matches_pattern(plat, f, pattern)})
            IN  IF matching = <<>>
                THEN <<>>
                ELSE << [kind |-> "unwanted", dist |-> dist_type, pattern |-> pattern,
                         files |-> matching,
                         note |-> IF translated # pattern THEN <<translated>> ELSE <<>>] >>
    IN  Flatten([i \in 1..Len(patterns) |-> err(i)])

\* check_absent: one error per pattern matched by a file that no present pattern
\* shields, naming those files in list order
check_absent(plat, files, patterns, dist_type, present_patterns) ==
    LET err(i) ==
            LET pattern == patterns[i]
                translated == translate_extension(plat, pattern)
                matching == Filter(files, {f \in ToSet(files) : matches_pattern(plat, f, pattern)})
                unshielded ==
                    IF matching # <<>> /\ present_patterns # <<>>
                    THEN Filter(matching,
                                {f \in ToSet(matching) :
                                    ~\E k \in 1..Len(present_patterns) :
                                        matches_pattern(plat, f, present_patterns[k])})
                    ELSE matching
            IN  IF unshielded = <<>>
                THEN <<>>
                ELSE << [kind |-> "unwanted", dist |-> dist_type, pattern |-> pattern,
                         files |-> unshielded,
                         note |-> IF translated # pattern THEN <<translated>> ELSE <<>>] >>
    IN  Flatten([i \in 1..Len(patterns) |-> err(i)])

\* os.path.splitext(p)[1]: from the last dot of the last component, unless that
\* component has only leading dots before it
splitext_ext(p) ==
    LET seps == {i \in 1..Len(p) : p[i] = "/"}
        sepIndex == IF seps = {} THEN 0 ELSE SeqMax(seps)
        dots == {i \in 1..Len(p) : p[i] = "."}
        dotIndex == IF dots = {} THEN 0 ELSE SeqMax(dots)
    IN  IF dotIndex > sepIndex
           /\ \E k \in (sepIndex + 1)..(dotIndex - 1) : p[k] # "."
        THEN SubSeq(p, dotIndex, Len(p))
        ELSE <<>>

\* check_wrong_platform_extensions: for each file, for each wrong suffix it ends
\* with, one error giving the suffix expected instead
check_wrong_platform_extensions(plat, files, dist_type) ==
    LET wrong_exts == _wrong_platform_extensions(plat)
        err(i, j) ==
            IF EndsWith(files[i], wrong_exts[j])
            THEN << [kind |-> "wrong_ext", dist |-> dist_type, pattern |-> wrong_exts[j],
                     files |-> <<files[i]>>,
                     note |-> <<splitext_ext(translate_extension(plat, files[i]))>>] >>
            ELSE <<>>
    IN  Flatten([i \in 1..Len(files) |->
                    Flatten([j \in 1..Len(wrong_exts) |-> err(i, j)])])

\* ------------------------------------------------- sdist against the VCS

\* hatch_config.get("targets", {}).get("sdist", {}) and the global table read by
\* _sdist_expected_files, as one record; has_x is "the key x is present", and a
\* force-include mapping is the list of its destinations (dict.values())
NoHatchConfig ==
    [has_only_include |-> FALSE, only_include |-> <<>>,
     has_packages |-> FALSE, packages |-> <<>>,
     has_include |-> FALSE, include |-> <<>>,
     exclude |-> <<>>, force_include |-> <<>>,
     global_force_include |-> <<>>, artifacts |-> <<>>]

\* f == p or f.startswith(p.rstrip("/") + "/")
UnderPath(f, p) == f = p \/ StartsWith(f, RStripSlash(p) \o <<"/">>)

\* the force-include mapping in effect: the sdist target's, or the global one
\* when the target's is empty
force_include_in_effect(hatch_config) ==
    IF hatch_config.force_include # <<>>
    THEN hatch_config.force_include
    ELSE hatch_config.global_force_include

\* step 1 with the precedence of only-include and packages exchanged
expected_base_packages_first(plat, vcs_files, hatch_config) ==
    LET h == hatch_config
        vcs == ToSet(vcs_files)
    IN  IF h.has_packages
        THEN {f \in vcs : \E k \in 1..Len(h.packages) : UnderPath(f, h.packages[k])}
        ELSE IF h.has_only_include
        THEN {f \in vcs : \E k \in 1..Len(h.only_include) : UnderPath(f, h.only_include[k])}
        ELSE IF h.include # <<>>
        THEN {f \in vcs : \E k \in 1..Len(h.include) :
                              _matches_hatch_pattern(plat, f, h.include[k])}
        ELSE vcs

\* _sdist_expected_files, step 1: the base set
expected_base(plat, vcs_files, hatch_config) ==
    LET h == hatch_config
        vcs == ToSet(vcs_files)
    IN  IF h.has_only_include
        THEN {f \in vcs : \E k \in 1..Len(h.only_include) : UnderPath(f, h.only_include[k])}
        ELSE IF h.has_packages
        THEN {f \in vcs : \E k \in 1..Len(h.packages) : UnderPath(f, h.packages[k])}
        ELSE IF h.include # <<>>
        THEN {f \in vcs : \E k \in 1..Len(h.include) :
                              _matches_hatch_pattern(plat, f, h.include[k])}
        ELSE vcs

\* step 2 applied only to a base that came from a full tree walk
expected_excluded_walk_only(plat, expected, hatch_config) ==
    IF hatch_config.exclude # <<>>
       /\ ~hatch_config.has_only_include /\ ~hatch_config.has_packages
    THEN {f \in expected : ~\E k \in 1..Len(hatch_config.exclude) :
                               _matches_hatch_pattern(plat, f, hatch_config.exclude[k])}
    ELSE expected

\* _sdist_expected_files, step 2: the excludes are subtracted
expected_excluded(plat, expected, hatch_config) ==
    IF hatch_config.exclude # <<>>
    THEN {f \in expected : ~\E k \in 1..Len(hatch_config.exclude) :
                               _matches_hatch_pattern(plat, f, hatch_config.exclude[k])}
    ELSE expected

\* step 3 with the destinations compared as written, separators not stripped
expected_forced_unstripped(expected, vcs_files, hatch_config) ==
    LET dests == force_include_in_effect(hatch_config)
    IN  expected \cup
        {f \in ToSet(vcs_files) :
            \E k \in 1..Len(dests) :
                f = dests[k] \/ StartsWith(f, RStripSlash(dests[k]) \o <<"/">>)}

\* _sdist_expected_files, step 3: the VCS files at or under a force-include
\* destination are added
expected_forced(expected, vcs_files, hatch_config) ==
    LET dests == force_include_in_effect(hatch_config)
    IN  expected \cup
        {f \in ToSet(vcs_files) :
            \E k \in 1..Len(dests) :
                LET dest == StripSlash(dests[k])
                IN  f = dest \/ StartsWith(f, RStripSlash(dest) \o <<"/">>)}

\* _sdist_expected_files
_sdist_expected_files(plat, vcs_files, hatch_config) ==
    expected_forced(
        expected_excluded(plat, expected_base(plat, vcs_files, hatch_config), hatch_config),
        vcs_files, hatch_config)

PKG_INFO == <<"P", "K", "G", "-", "I", "N", "F", "O">>

EGG_INFO == <<".", "e", "g", "g", "-", "i", "n", "f", "o">>

COPIER_ANSWERS == <<".", "c", "o", "p", "i", "e", "r", "-", "a", "n", "s", "w", "e", "r", "s", ".", "y", "a", "m", "l">>

MAKEFILE == <<"M", "a", "k", "e", "f", "i", "l", "e">>

DOT_GITHUB == <<".", "g", "i", "t", "h", "u", "b">>

DIST == <<"d", "i", "s", "t">>

DOCS == <<"d", "o", "c", "s">>

EXAMPLES == <<"e", "x", "a", "m", "p", "l", "e", "s">>

TESTS == <<"t", "e", "s", "t", "s">>

_GENERATED_SDIST_FILES == {PKG_INFO}

_COMMON_SDIST_ABSENT == <<COPIER_ANSWERS, MAKEFILE, DOT_GITHUB, DIST, DOCS, EXAMPLES, TESTS>>


\* check_sdist_vs_vcs without the removal of generated metadata from the sdist
\* listing
check_sdist_vs_vcs_keeps_generated(plat, sdist_names, vcs_files, hatch_config, sdist_absent) ==
    LET expected == _sdist_expected_files(plat, vcs_files, hatch_config)
        vcs_set == ToSet(vcs_files)
        sdist_set == ToSet(sdist_names)
        artifacts == hatch_config.artifacts
        extra0 == sorted(sdist_set \ vcs_set)
        extra ==
            IF artifacts # <<>>
            THEN Filter(extra0, {f \in ToSet(extra0) :
                            ~\E k \in 1..Len(artifacts) : matches_pattern(plat, f, artifacts[k])})
            ELSE extra0
        missing0 == sorted(expected \ sdist_set)
        missing1 == Filter(missing0, {f \in ToSet(missing0) : ~StartsWith(f, <<".">>)})
        all_absent == _COMMON_SDIST_ABSENT \o sdist_absent
        missing == Filter(missing1, {f \in ToSet(missing1) :
                            ~\E k \in 1..Len(all_absent) : matches_pattern(plat, f, all_absent[k])})
    IN  (IF extra # <<>>
         THEN << [kind |-> "extra", dist |-> "sdist", pattern |-> <<>>,
                  files |-> extra, note |-> <<>>] >>
         ELSE <<>>)
        \o
        (IF missing # <<>>
         THEN << [kind |-> "missing", dist |-> "sdist", pattern |-> <<>>,
                  files |-> missing, note |-> <<>>] >>
         ELSE <<>>)

\* check_sdist_vs_vcs with the extra files taken against the files expected in
\* the sdist where the code takes them against the tracked files
check_sdist_vs_vcs_extra_against_expected(plat, sdist_names, vcs_files, hatch_config, sdist_absent) ==
    LET expected == _sdist_expected_files(plat, vcs_files, hatch_config)
        sdist_set == {f \in ToSet(sdist_names) :
                         /\ f \notin _GENERATED_SDIST_FILES
                         /\ ~Contains(f, EGG_INFO \o <<"/">>)
                         /\ ~EndsWith(f, EGG_INFO)}
        artifacts == hatch_config.artifacts
        extra0 == sorted(sdist_set \ expected)
        extra ==
            IF artifacts # <<>>
            THEN Filter(extra0, {f \in ToSet(extra0) :
                            ~\E k \in 1..Len(artifacts) : matches_pattern(plat, f, artifacts[k])})
            ELSE extra0
        missing0 == sorted(expected \ sdist_set)
        missing1 == Filter(missing0, {f \in ToSet(missing0) : ~StartsWith(f, <<".">>)})
        all_absent == _COMMON_SDIST_ABSENT \o sdist_absent
        missing == Filter(missing1, {f \in ToSet(missing1) :
                            ~\E k \in 1..Len(all_absent) : matches_pattern(plat, f, all_absent[k])})
    IN  (IF extra # <<>>
         THEN << [kind |-> "extra", dist |-> "sdist", pattern |-> <<>>,
                  files |-> extra, note |-> <<>>] >>
         ELSE <<>>)
        \o
        (IF missing # <<>>
         THEN << [kind |-> "missing", dist |-> "sdist", pattern |-> <<>>,
                  files |-> missing, note |-> <<>>] >>
         ELSE <<>>)

\* check_sdist_vs_vcs: at most an "extra" error and a "missing" error
check_sdist_vs_vcs(plat, sdist_names, vcs_files, hatch_config, sdist_absent) ==
    LET expected == _sdist_expected_files(plat, vcs_files, hatch_config)
        vcs_set == ToSet(vcs_files)
        sdist_set == {f \in ToSet(sdist_names) :
                         /\ f \notin _GENERATED_SDIST_FILES
                         /\ ~Contains(f, EGG_INFO \o <<"/">>)
                         /\ ~EndsWith(f, EGG_INFO)}
        artifacts == hatch_config.artifacts
        extra0 == sorted(sdist_set \ vcs_set)
        extra ==
            IF artifacts # <<>>
            THEN Filter(extra0, {f \in ToSet(extra0) :
                            ~\E k \in 1..Len(artifacts) : matches_pattern(plat, f, artifacts[k])})
            ELSE extra0
        missing0 == sorted(expected \ sdist_set)
        missing1 == Filter(missing0, {f \in ToSet(missing0) : ~StartsWith(f, <<".">>)})
        all_absent == _COMMON_SDIST_ABSENT \o sdist_absent
        missing == Filter(missing1, {f \in ToSet(missing1) :
                            ~\E k \in 1..Len(all_absent) : matches_pattern(plat, f, all_absent[k])})
    IN  (IF extra # <<>>
         THEN << [kind |-> "extra", dist |-> "sdist", pattern |-> <<>>,
                  files |-> extra, note |-> <<>>] >>
         ELSE <<>>)
        \o
        (IF missing # <<>>
         THEN << [kind |-> "missing", dist |-> "sdist", pattern |-> <<>>,
                  files |-> missing, note |-> <<>>] >>
         ELSE <<>>)

\* ==================================================================
\* A call of matches_pattern (SpecMatch)
\* ==================================================================

\* the strings of length at most n over an alphabet
RECURSIVE StringsUpTo(_, _)
StringsUpTo(alphabet, n) ==
    IF n = 0 THEN {<<>>}
    ELSE LET shorter == StringsUpTo(alphabet, n - 1)
         IN  shorter \cup {Append(s, c) : s \in {x \in shorter : Len(x) = n - 1}, c \in alphabet}

Suffixes == {<<>>, ExtSo, ExtPyd, ExtDll, ExtDylib}

\* the file paths a call is tried on: a stem and an optional platform suffix
PathAlphabet == {"a", "A", "/"}

Paths == {s \o x : s \in StringsUpTo(PathAlphabet, MaxPathLen), x \in Suffixes} \ {<<>>}

\* the patterns a call is tried on, with and without glob metacharacters
PatternAlphabet == {"a", "/", "*", "?", "["}

Patterns == {s \o x : s \in StringsUpTo(PatternAlphabet, MaxPatLen), x \in Suffixes}

MatchIdle ==
    /\ m_pc = "idle"
    /\ m_plat = "linux"
    /\ m_file = <<>>
    /\ m_pattern = <<>>
    /\ m_result = FALSE
    /\ m_translated = <<>>
    /\ m_again = <<>>

InitMatch ==
    /\ m_pc = "call"
    /\ m_plat \in Platforms
    /\ m_file = <<>>
    /\ m_pattern = <<>>
    /\ m_result = FALSE
    /\ m_translated = <<>>
    /\ m_again = <<>>

\* matches_pattern(filepath, pattern) is called and returns
CallMatchesPattern ==
    /\ m_pc = "call"
    /\ \E f \in Paths, p \in Patterns :
          /\ m_file' = f
          /\ m_pattern' = p
          /\ m_result' = matches_pattern(m_plat, f, p)
    /\ m_pc' = "done"
    /\ UNCHANGED <<m_plat, m_translated, m_again>>

\* translate_extension(pattern) is called and returns
CallTranslateExtension ==
    /\ m_pc = "call"
    /\ \E pattern \in Paths \cup Patterns :
          /\ m_pattern' = pattern
          /\ m_translated' = translate_extension(m_plat, pattern)
    /\ m_pc' = "translate_extension"
    /\ UNCHANGED <<m_plat, m_file, m_result, m_again>>

\* translate_extension is called on the value it returned
CallTranslateExtensionAgain ==
    /\ m_pc = "translate_extension"
    /\ m_again' = translate_extension(m_plat, m_translated)
    /\ m_pc' = "translate_extension_again"
    /\ UNCHANGED <<m_plat, m_file, m_pattern, m_result, m_translated>>

\* ==================================================================
\* A call of _sdist_expected_files (SpecExpected)
\* ==================================================================

PKG == <<"p", "k", "g">>

PKG_SLASH == <<"p", "k", "g", "/">>

RUST == <<"r", "u", "s", "t">>

TARGET == <<"t", "a", "r", "g", "e", "t">>

CARGO_TOML == <<"C", "a", "r", "g", "o", ".", "t", "o", "m", "l">>

GLOB_TOML == <<"*", ".", "t", "o", "m", "l">>

RUST_TARGET_ANCHORED == <<"/", "r", "u", "s", "t", "/", "t", "a", "r", "g", "e", "t", "/">>

F_PKG_INIT == <<"p", "k", "g", "/", "_", "_", "i", "n", "i", "t", "_", "_", ".", "p", "y">>

F_RUST_TARGET_FOO == <<"r", "u", "s", "t", "/", "t", "a", "r", "g", "e", "t", "/", "d", "e", "b", "u", "g", "/", "f", "o", "o">>

F_RUST_LIB == <<"r", "u", "s", "t", "/", "s", "r", "c", "/", "l", "i", "b", ".", "r", "s">>

F_MAKEFILE == <<"M", "a", "k", "e", "f", "i", "l", "e">>

\* the files the VCS may track
VcsPool == {F_PKG_INIT, F_RUST_TARGET_FOO, F_RUST_LIB, CARGO_TOML, F_MAKEFILE}

\* get_vcs_files returns a sorted list
VcsLists == {sorted(S) : S \in {T \in SUBSET VcsPool : Cardinality(T) <= MaxVcsFiles}}

\* [tool.hatch.build.targets.sdist] only-include / packages: absent, empty, set
ScanPathOptions ==
    {[has |-> FALSE, val |-> <<>>], [has |-> TRUE, val |-> <<>>],
     [has |-> TRUE, val |-> <<PKG_SLASH>>], [has |-> TRUE, val |-> <<PKG, RUST>>]}

IncludeOptions == {<<>>, <<MAKEFILE>>, <<GLOB_TOML>>}

ExcludeOptions == {<<>>, <<TARGET>>, <<PKG>>}

ForceIncludeOptions == {<<>>, <<RUST_TARGET_ANCHORED>>}

GlobalForceIncludeOptions == {<<>>, <<PKG>>}

HatchConfigs ==
    {[has_only_include |-> oi.has, only_include |-> oi.val,
      has_packages |-> pk.has, packages |-> pk.val,
      has_include |-> inc # <<>>, include |-> inc,
      exclude |-> exc, force_include |-> fi,
      global_force_include |-> gfi, artifacts |-> <<>>] :
        oi \in ScanPathOptions, pk \in ScanPathOptions, inc \in IncludeOptions,
        exc \in ExcludeOptions, fi \in ForceIncludeOptions,
        gfi \in GlobalForceIncludeOptions}

F_SRC_LIB == <<"s", "r", "c", "/", "l", "i", "b", ".", "r", "s">>

F_RUST_MYTARGET_FOO == <<"r", "u", "s", "t", "/", "m", "y", "t", "a", "r", "g", "e", "t", "/", "f", "o", "o">>

TARGET_DEBUG == <<"t", "a", "r", "g", "e", "t", "/", "d", "e", "b", "u", "g">>

TARGET_ANCHORED == <<"/", "t", "a", "r", "g", "e", "t">>

\* the paths and the include or exclude patterns of a call of
\* _matches_hatch_pattern
HatchFiles ==
    (StringsUpTo(PathAlphabet, MaxPathLen) \ {<<>>})
        \cup {F_RUST_TARGET_FOO, F_RUST_MYTARGET_FOO, F_RUST_LIB, F_SRC_LIB}

HatchPatterns ==
    StringsUpTo({"a", "A", "/", "*"}, MaxPatLen)
        \cup {RUST, TARGET, TARGET_DEBUG, TARGET_ANCHORED}

\* _matches_hatch_pattern(filepath, pattern) is called and returns
CallMatchesHatchPattern ==
    /\ m_pc = "call"
    /\ \E filepath \in HatchFiles, pattern \in HatchPatterns :
          /\ m_file' = filepath
          /\ m_pattern' = pattern
          /\ m_result' = _matches_hatch_pattern(m_plat, filepath, pattern)
    /\ m_pc' = "_matches_hatch_pattern"
    /\ UNCHANGED <<m_plat, m_translated, m_again>>

ExpIdle ==
    /\ e_pc = "idle"
    /\ e_plat = "linux"
    /\ e_vcs = <<>>
    /\ e_hatch = NoHatchConfig
    /\ e_expected = {}

InitExpected ==
    /\ e_pc = "call"
    /\ e_plat \in Platforms
    /\ e_vcs = <<>>
    /\ e_hatch = NoHatchConfig
    /\ e_expected = {}

\* _sdist_expected_files is entered and its step 1 chooses the base set
ExpectedStep1 ==
    /\ e_pc = "call"
    /\ \E v \in VcsLists, h \in HatchConfigs :
          /\ e_vcs' = v
          /\ e_hatch' = h
          /\ e_expected' = expected_base(e_plat, v, h)
    /\ e_pc' = "based"
    /\ UNCHANGED e_plat

\* step 2: excludes
ExpectedStep2 ==
    /\ e_pc = "based"
    /\ e_expected' = expected_excluded(e_plat, e_expected, e_hatch)
    /\ e_pc' = "excluded"
    /\ UNCHANGED <<e_plat, e_vcs, e_hatch>>

\* step 3: force-include destinations, and the return
ExpectedStep3 ==
    /\ e_pc = "excluded"
    /\ e_expected' = expected_forced(e_expected, e_vcs, e_hatch)
    /\ e_pc' = "done"
    /\ UNCHANGED <<e_plat, e_vcs, e_hatch>>

\* ==================================================================
\* check_dist and the command line (Spec, SpecLocate)
\* ==================================================================

\* None, for a path or a directory
None == <<>>

TAR_GZ == <<".", "t", "a", "r", ".", "g", "z">>

ZIP == <<".", "z", "i", "p">>

WHL == <<".", "w", "h", "l">>

WHEELHOUSE == <<"w", "h", "e", "e", "l", "h", "o", "u", "s", "e">>

\* the directory the caller names with --pre-built
PRE_BUILT_DIR == <<"p", "b">>

\* the directory tempfile.TemporaryDirectory creates
TMP_DIR == <<"t", "m", "p">>

\* the entries a directory listing may hold: two sdists, a wheel, another file
N_TGZ == <<"p", ".", "t", "a", "r", ".", "g", "z">>

N_ZIP == <<"p", ".", "z", "i", "p">>

N_WHL == <<"p", ".", "w", "h", "l">>

N_TXT == <<"n", ".", "t", "x", "t">>

EntryNames == {N_TGZ, N_ZIP, N_WHL, N_TXT}

\* a directory that does not exist, and one that os.listdir lists as names
NoDir == [exists |-> FALSE, names |-> <<>>]

Dir(names) == [exists |-> TRUE, names |-> names]

\* os.path.join
join(dir, name) == dir \o <<"/">> \o name

\* the loop of find_dist_files over os.listdir(output_dir)
RECURSIVE find_dist_loop(_, _, _, _)
find_dist_loop(names, output_dir, sdist, wheel) ==
    IF names = <<>> THEN <<sdist, wheel>>
    ELSE LET name == Head(names)
         IN  IF EndsWith(name, TAR_GZ) \/ EndsWith(name, ZIP)
             THEN find_dist_loop(Tail(names), output_dir, join(output_dir, name), wheel)
             ELSE IF EndsWith(name, WHL)
             THEN find_dist_loop(Tail(names), output_dir, sdist, join(output_dir, name))
             ELSE find_dist_loop(Tail(names), output_dir, sdist, wheel)


\* find_dist_files that keeps the first matching entry of each kind
find_dist_files_first(filesystem, output_dir) ==
    IF ~filesystem[output_dir].exists THEN <<None, None>>
    ELSE LET names == filesystem[output_dir].names
             sdists == {i \in 1..Len(names) : EndsWith(names[i], TAR_GZ) \/ EndsWith(names[i], ZIP)}
             wheels == {i \in 1..Len(names) :
                           /\ ~(EndsWith(names[i], TAR_GZ) \/ EndsWith(names[i], ZIP))
                           /\ EndsWith(names[i], WHL)}
         IN  << IF sdists = {} THEN None ELSE join(output_dir, names[SeqMin(sdists)]),
                IF wheels = {} THEN None ELSE join(output_dir, names[SeqMin(wheels)]) >>

\* find_dist_files: <<sdist_path, wheel_path>>
find_dist_files(filesystem, output_dir) ==
    IF ~filesystem[output_dir].exists THEN <<None, None>>
    ELSE find_dist_loop(filesystem[output_dir].names, output_dir, None, None)

_DEFAULT_DIST_DIRS == <<DIST, WHEELHOUSE>>

\* _find_pre_built with the default directories tried in the other order
_find_pre_built_wheelhouse_first(filesystem) ==
    LET found(d) == find_dist_files(filesystem, d)
    IN  IF found(WHEELHOUSE)[1] # None \/ found(WHEELHOUSE)[2] # None THEN WHEELHOUSE
        ELSE IF found(DIST)[1] # None \/ found(DIST)[2] # None THEN DIST
        ELSE None

\* _find_pre_built: the first default directory that holds an sdist or a wheel
_find_pre_built(filesystem) ==
    LET hits == {i \in 1..Len(_DEFAULT_DIST_DIRS) :
                    LET found == find_dist_files(filesystem, _DEFAULT_DIST_DIRS[i])
                    IN  found[1] # None \/ found[2] # None}
    IN  IF hits = {} THEN None ELSE _DEFAULT_DIST_DIRS[SeqMin(hits)]

\* list.insert(-1, x): x goes before the last element
InsertBeforeLast(s, x) == SubSeq(s, 1, Len(s) - 1) \o <<x>> \o SubSeq(s, Len(s), Len(s))

\* build_cmd with the flag appended after the output directory, as cmd_base is
\* built
build_cmd_flag_appended(targets, output_dir, no_isolation, source_dir) ==
    <<"python", "-m", "build">> \o targets \o <<"--outdir", output_dir>>
        \o (IF no_isolation THEN <<"--no-isolation">> ELSE <<>>) \o <<source_dir>>

\* the argv that build_dists hands to subprocess.run for the given targets
build_cmd(targets, output_dir, no_isolation, source_dir) ==
    LET cmd == <<"python", "-m", "build">> \o targets \o <<"--outdir", output_dir>>
    IN  (IF no_isolation THEN InsertBeforeLast(cmd, "--no-isolation") ELSE cmd)
        \o <<source_dir>>

\* strip_root that removes nothing
strip_root_verbatim(name) == name

\* name.split("/", 1), then parts[1] if there are two parts, else parts[0]
strip_root(name) ==
    LET seps == {i \in 1..Len(name) : name[i] = "/"}
    IN  IF seps = {} THEN name ELSE SubSeq(name, SeqMin(seps) + 1, Len(name))

\* sorted() of a list, duplicates kept
RECURSIVE sorted_list(_)
sorted_list(s) ==
    IF s = <<>> THEN <<>>
    ELSE LET least == CHOOSE i \in 1..Len(s) :
                         \A j \in 1..Len(s) : ~StrLess(s[j], s[i]) /\ (s[j] = s[i] => i <= j)
         IN  <<s[least]>> \o sorted_list(SubSeq(s, 1, least - 1) \o SubSeq(s, least + 1, Len(s)))

\* the members of s that satisfy keep, mapped through strip_root (list_sdist_files)
RECURSIVE stripped_files(_, _)
stripped_files(members, is_zip) ==
    IF members = <<>> THEN <<>>
    ELSE LET m == Head(members)
             keep == IF is_zip THEN ~EndsWith(m.name, <<"/">>) ELSE m.isfile
         IN  (IF keep THEN <<strip_root(m.name)>> ELSE <<>>)
             \o stripped_files(Tail(members), is_zip)

\* whether list_sdist_files knows the archive's format (it raises otherwise)
known_sdist_format(path) == EndsWith(path, TAR_GZ) \/ EndsWith(path, ZIP)

\* list_sdist_files, for an archive of a known format with the given members
list_sdist_files(path, members) ==
    sorted_list(stripped_files(members, ~EndsWith(path, TAR_GZ)))

\* the names of zf.namelist() that are not directories (list_wheel_files)
RECURSIVE file_names(_)
file_names(members) ==
    IF members = <<>> THEN <<>>
    ELSE (IF ~EndsWith(Head(members).name, <<"/">>) THEN <<Head(members).name>> ELSE <<>>)
         \o file_names(Tail(members))

\* list_wheel_files
list_wheel_files(members) == sorted_list(file_names(members))

\* ------------------------------------------------ what a run is given

PYPROJECT == <<"p", "y", "p", "r", "o", "j", "e", "c", "t", ".", "t", "o", "m", "l">>

F_DOCS_INDEX == <<"d", "o", "c", "s", "/", "i", ".", "m", "d">>

F_PKG_PYD == <<"p", "k", "g", "/", "m", ".", "p", "y", "d">>

F_PKG_SO == <<"p", "k", "g", "/", "m", ".", "s", "o">>

F_METADATA == <<"p", ".", "d", "i", "s", "t", "-", "i", "n", "f", "o", "/", "M", "E", "T", "A", "D", "A", "T", "A">>

\* an archive member: its name and whether it is a regular file
File(name) == [name |-> name, isfile |-> TRUE]

Folder(name) == [name |-> name \o <<"/">>, isfile |-> FALSE]

\* a member of an sdist, under the archive's root directory
Rooted(name) == <<"p", "/">> \o name

\* the member lists an sdist may hold
SdistArchives ==
    { <<Folder(Rooted(PKG)), File(Rooted(F_PKG_INIT)), File(Rooted(PYPROJECT)),
        File(Rooted(PKG_INFO))>>,
      <<File(Rooted(F_PKG_INIT)), File(Rooted(PYPROJECT)), File(Rooted(PKG_INFO)),
        File(Rooted(F_DOCS_INDEX))>>,
      <<File(Rooted(PKG_INFO)), File(Rooted(F_PKG_INIT))>>,
      <<File(Rooted(F_PKG_INIT)), File(Rooted(F_PKG_PYD)), File(Rooted(PYPROJECT))>> }

\* the member lists a wheel may hold
WheelArchives ==
    { <<File(F_PKG_INIT), File(F_METADATA)>>,
      <<File(F_PKG_INIT), File(F_PKG_SO), File(PYPROJECT), Folder(PKG)>> }

\* what git ls-files may list
TrackedFiles ==
    { sorted({F_PKG_INIT, PYPROJECT}),
      sorted({F_PKG_INIT, PYPROJECT, F_DOCS_INDEX}) }

\* what load_config may return
EmptyConfig ==
    [sdist |-> [present |-> <<>>, absent |-> <<>>],
     wheel |-> [present |-> <<>>, absent |-> <<>>]]

ProjectConfig ==
    [sdist |-> [present |-> <<PKG, PYPROJECT>>, absent |-> <<DOCS>>],
     wheel |-> [present |-> <<PKG>>, absent |-> <<DOCS, PYPROJECT>>]]

Configs == {EmptyConfig, ProjectConfig}

\* what load_hatch_config may return
PackagesHatchConfig ==
    [NoHatchConfig EXCEPT !.has_packages = TRUE, !.packages = <<PKG>>]

MainHatchConfigs == {NoHatchConfig, PackagesHatchConfig}

Dirs == {DIST, WHEELHOUSE, PRE_BUILT_DIR, TMP_DIR}

\* a file system with the given listings; the temporary directory does not
\* exist before it is created
FileSystem(dist, wheelhouse, pre) ==
    [d \in Dirs |->
        IF d = DIST THEN dist
        ELSE IF d = WHEELHOUSE THEN wheelhouse
        ELSE IF d = PRE_BUILT_DIR THEN pre
        ELSE NoDir]

\* the file systems whole runs are tried on
FsScenarios ==
    { FileSystem(NoDir, NoDir, NoDir),
      FileSystem(Dir(<<N_TGZ, N_WHL>>), NoDir, Dir(<<N_TXT>>)),
      FileSystem(Dir(<<N_TXT>>), Dir(<<N_WHL>>), Dir(<<N_ZIP, N_WHL>>)),
      FileSystem(Dir(<<N_ZIP>>), Dir(<<N_WHL>>), Dir(<<>>)),
      FileSystem(NoDir, NoDir, Dir(<<N_TGZ>>)) }

\* the listings of at most MaxDirEntries distinct entries
RECURSIVE ListingsUpTo(_)
ListingsUpTo(n) ==
    IF n = 0 THEN {<<>>}
    ELSE LET shorter == ListingsUpTo(n - 1)
         IN  shorter \cup
             {Append(s, e) : s \in {x \in shorter : Len(x) = n - 1}, e \in EntryNames}

DirStates ==
    {NoDir} \cup {Dir(s) : s \in {x \in ListingsUpTo(MaxDirEntries) :
                                     \A i, j \in 1..Len(x) : x[i] = x[j] => i = j}}

\* a message line, by kind
Msg(tag, text) == <<tag, text>>

\* the lines check_dist appends for an inspected archive: the header with the
\* file count and, when verbose, one line per file
ListingMessages(dist_type, path, files, verbose) ==
    <<Msg("header", <<dist_type, basename(path), Len(files)>>)>>
    \o (IF verbose THEN [i \in 1..Len(files) |-> Msg("file", files[i])] ELSE <<>>)

\* the closing error block with only the first error listed
ErrorBlock_first_only(errs) == <<Msg("count", Len(errs)), Msg("ERROR", errs[1])>>

\* the lines of the closing error block
ErrorBlock(errs) ==
    <<Msg("count", Len(errs))>> \o [i \in 1..Len(errs) |-> Msg("ERROR", errs[i])]

\* an error that is not the result of a pattern check
PlainError(kind) ==
    [kind |-> kind, dist |-> "", pattern |-> <<>>, files |-> <<>>, note |-> <<>>]

\* where check_dist goes after the sdist block, and after the wheel block
AfterSdist == IF wheel_path # None THEN "wheel_list" ELSE "finally"

AfterPresence == IF sdist_path # None THEN "sdist_list" ELSE AfterSdist


\* ------------------------------------------------ the command line

\* the state before main is entered, for a given file system
MainStart ==
    /\ pc = "main"
    /\ a_pre_built = None /\ a_rebuild = FALSE
    /\ a_no_isolation = FALSE /\ a_verbose = FALSE
    /\ config = EmptyConfig /\ hatch = NoHatchConfig
    /\ pre_built = None /\ sdist_path = None /\ wheel_path = None
    /\ tmpdir = "none" /\ releases = 0
    /\ runs = <<>> /\ built_any = FALSE /\ warnings = <<>>
    /\ sdist_files = <<>> /\ wheel_files = <<>>
    /\ vcs_status = "unqueried" /\ tracked = <<>> /\ ran = <<>>
    /\ messages = <<>> /\ errors = <<>> /\ raised = "none"
    /\ success = FALSE /\ exit_code = None
    /\ stdout = <<>> /\ stderr = <<>>

\* a run of the command line on one of the scenario file systems
MainInit ==
    /\ sys_platform \in Platforms
    /\ fs \in FsScenarios
    /\ MainStart

\* the model of check_dist and main when another specification is checked
MainIdle ==
    /\ sys_platform = "linux"
    /\ fs = FileSystem(NoDir, NoDir, NoDir)
    /\ MainStart

\* the archive-location phase of check_dist, entered with any arguments and
\* any listing of dist/, wheelhouse/ and the --pre-built directory
InitLocate ==
    /\ sys_platform = "linux"
    /\ fs \in {FileSystem(d, w, p) : d \in DirStates, w \in DirStates, p \in DirStates}
    /\ pc = "locate"
    /\ a_pre_built \in {None, PRE_BUILT_DIR}
    /\ a_rebuild \in BOOLEAN
    /\ a_no_isolation = FALSE /\ a_verbose = FALSE
    /\ config = EmptyConfig /\ hatch = NoHatchConfig
    /\ pre_built = a_pre_built /\ sdist_path = None /\ wheel_path = None
    /\ tmpdir = "none" /\ releases = 0
    /\ runs = <<>> /\ built_any = FALSE /\ warnings = <<>>
    /\ sdist_files = <<>> /\ wheel_files = <<>>
    /\ vcs_status = "unqueried" /\ tracked = <<>> /\ ran = <<>>
    /\ messages = <<>> /\ errors = <<>> /\ raised = "none"
    /\ success = FALSE /\ exit_code = None
    /\ stdout = <<>> /\ stderr = <<>>

\* main, up to parser.parse_args(argv): the arguments are parsed and check_dist
\* is called; or argparse prints the help and exits 0; or argparse reports a
\* usage error on standard error and exits 2
ParseArgs ==
    /\ pc = "main"
    /\ \/ /\ \E pb \in {None, PRE_BUILT_DIR}, rb \in BOOLEAN, ni \in BOOLEAN, vb \in BOOLEAN :
                /\ a_pre_built' = pb
                /\ a_rebuild' = rb
                /\ a_no_isolation' = ni
                /\ a_verbose' = vb
                /\ pre_built' = pb
          /\ pc' = "check_dist"
          /\ UNCHANGED <<exit_code, stdout, stderr>>
       \/ /\ pc' = "exited"
          /\ exit_code' = <<0>>
          /\ stdout' = <<Msg("help", <<>>)>>
          /\ UNCHANGED <<a_pre_built, a_rebuild, a_no_isolation, a_verbose, pre_built, stderr>>
       \/ /\ pc' = "exited"
          /\ exit_code' = <<2>>
          /\ stderr' = <<Msg("usage", <<>>)>>
          /\ UNCHANGED <<a_pre_built, a_rebuild, a_no_isolation, a_verbose, pre_built, stdout>>
    /\ UNCHANGED <<sys_platform, fs, config, hatch, sdist_path, wheel_path, tmpdir,
                   releases, runs, built_any, warnings, sdist_files, wheel_files, vcs_status, tracked,
                   ran, messages, errors, raised, success>>

\* ------------------------------------------------ check_dist

\* check_dist, the two loads: load_config and load_hatch_config return, or one of
\* them raises (a malformed pyproject.toml)
LoadConfig ==
    /\ pc = "check_dist"
    /\ \/ /\ config' \in Configs
          /\ hatch' \in MainHatchConfigs
          /\ pc' = "locate"
          /\ UNCHANGED raised
       \/ /\ raised' = "Exception"
          /\ pc' = "raised"
          /\ UNCHANGED <<config, hatch>>
    /\ UNCHANGED <<sys_platform, a_pre_built, a_rebuild, a_no_isolation, a_verbose, fs,
                   pre_built, sdist_path, wheel_path, tmpdir, releases, runs,
                   built_any, warnings, sdist_files, wheel_files, vcs_status, tracked, ran, messages,
                   errors, success, exit_code, stdout, stderr>>

\* check_dist, the choice of where the archives come from: the directory named by
\* the caller; else, unless rebuild is set, the first default directory that holds
\* an archive; else a build
Locate ==
    /\ pc = "locate"
    /\ IF pre_built # None
       THEN /\ messages' = Append(messages, Msg("using_prebuilt", pre_built))
            /\ sdist_path' = find_dist_files(fs, pre_built)[1]
            /\ wheel_path' = find_dist_files(fs, pre_built)[2]
            /\ pre_built' = pre_built
            /\ pc' = "presence"
       ELSE IF ~a_rebuild
       THEN LET detected == _find_pre_built(fs)
            IN  IF detected # None
                THEN /\ messages' = Append(messages, Msg("using_prebuilt", detected))
                     /\ sdist_path' = find_dist_files(fs, detected)[1]
                     /\ wheel_path' = find_dist_files(fs, detected)[2]
                     /\ pre_built' = detected
                     /\ pc' = "presence"
                ELSE /\ pre_built' = None
                     /\ pc' = "create_tmp"
                     /\ UNCHANGED <<messages, sdist_path, wheel_path>>
       ELSE /\ pre_built' = None
            /\ pc' = "create_tmp"
            /\ UNCHANGED <<messages, sdist_path, wheel_path>>
    /\ UNCHANGED <<sys_platform, a_pre_built, a_rebuild, a_no_isolation, a_verbose, fs, config,
                   hatch, tmpdir, releases, runs, built_any, warnings,
                   sdist_files, wheel_files, vcs_status, tracked, ran, errors, raised, success, exit_code,
                   stdout, stderr>>

\* check_dist: the temporary directory is created and build_dists is called
CreateTmp ==
    /\ pc = "create_tmp"
    /\ pre_built = None
    /\ tmpdir' = "exists"
    /\ fs' = [fs EXCEPT ![TMP_DIR] = Dir(<<>>)]
    /\ messages' = Append(messages, Msg("building", <<>>))
    /\ pc' = "build_combined"
    /\ UNCHANGED <<sys_platform, a_pre_built, a_rebuild, a_no_isolation, a_verbose, config,
                   hatch, pre_built, sdist_path, wheel_path, releases, runs,
                   built_any, warnings, sdist_files, wheel_files, vcs_status, tracked, ran, errors,
                   raised, success, exit_code, stdout, stderr>>

\* ------------------------------------------------ build_dists

\* what a run of python -m build may do: exit 0, exit non-zero, or be interrupted
\* from the keyboard while subprocess.run waits for it
BuildOutcomes == {"ok", "failed", "interrupted"}

\* build_dists, the combined build: on exit 0 build_dists returns no warnings
BuildCombined ==
    /\ pc = "build_combined"
    /\ warnings' = <<>>
    /\ built_any' = FALSE
    /\ \E outcome \in BuildOutcomes :
          /\ runs' = Append(runs, [cmd |-> build_cmd(<<"--sdist", "--wheel">>, "output_dir",
                                                     a_no_isolation, "source_dir"),
                                   outcome |-> outcome])
          /\ CASE outcome = "ok" ->
                    /\ \E written \in {<<>>, <<N_TGZ, N_WHL>>} :
                          fs' = [fs EXCEPT ![TMP_DIR] = Dir(fs[TMP_DIR].names \o written)]
                    /\ pc' = "after_build"
                    /\ UNCHANGED raised
               [] outcome = "failed" ->
                    /\ pc' = "build_sdist"
                    /\ UNCHANGED <<fs, raised>>
               [] outcome = "interrupted" ->
                    /\ raised' = "KeyboardInterrupt"
                    /\ pc' = "build_except"
                    /\ UNCHANGED fs
    /\ UNCHANGED <<sys_platform, a_pre_built, a_rebuild, a_no_isolation, a_verbose, config,
                   hatch, pre_built, sdist_path, wheel_path, tmpdir, releases,
                   sdist_files, wheel_files, vcs_status, tracked, ran, messages, errors, success,
                   exit_code, stdout, stderr>>

\* build_dists, one pass of the loop over ("--sdist", "--wheel")
BuildTarget(at, target, kind, archive, next) ==
    /\ pc = at
    /\ \E outcome \in BuildOutcomes :
          /\ runs' = Append(runs, [cmd |-> build_cmd(<<target>>, "output_dir",
                                                     a_no_isolation, "source_dir"),
                                   outcome |-> outcome])
          /\ CASE outcome = "ok" ->
                    /\ built_any' = TRUE
                    /\ fs' = [fs EXCEPT ![TMP_DIR] = Dir(fs[TMP_DIR].names \o <<archive>>)]
                    /\ pc' = next
                    /\ UNCHANGED <<warnings, raised>>
               [] outcome = "failed" ->
                    /\ warnings' = Append(warnings, kind)
                    /\ pc' = next
                    /\ UNCHANGED <<built_any, fs, raised>>
               [] outcome = "interrupted" ->
                    /\ raised' = "KeyboardInterrupt"
                    /\ pc' = "build_except"
                    /\ UNCHANGED <<built_any, fs, warnings>>
    /\ UNCHANGED <<sys_platform, a_pre_built, a_rebuild, a_no_isolation, a_verbose, config,
                   hatch, pre_built, sdist_path, wheel_path, tmpdir, releases,
                   sdist_files, wheel_files, vcs_status, tracked, ran, messages, errors, success,
                   exit_code, stdout, stderr>>

\* the pass for "--sdist" that leaves the loop after it
BuildSdist_skips_wheel == BuildTarget("build_sdist", "--sdist", "sdist", N_TGZ, "build_end")

\* the pass for "--sdist"
BuildSdist == BuildTarget("build_sdist", "--sdist", "sdist", N_TGZ, "build_wheel")

\* the pass for "--wheel"
BuildWheel == BuildTarget("build_wheel", "--wheel", "wheel", N_WHL, "build_end")

\* build_dists, after the loop: raise if nothing was built, else return the warnings
BuildEnd ==
    /\ pc = "build_end"
    /\ IF ~built_any
       THEN /\ raised' = "CheckDistError"
            /\ pc' = "build_except"
       ELSE /\ pc' = "after_build"
            /\ UNCHANGED raised
    /\ UNCHANGED <<sys_platform, a_pre_built, a_rebuild, a_no_isolation, a_verbose, fs, config,
                   hatch, pre_built, sdist_path, wheel_path, tmpdir, releases,
                   runs, built_any, warnings, sdist_files, wheel_files, vcs_status, tracked, ran,
                   messages, errors, success, exit_code, stdout, stderr>>

\* ------------------------------------------------ check_dist, continued

\* check_dist, after build_dists returned: the warnings become messages and the
\* temporary directory is searched
AfterBuild ==
    /\ pc = "after_build"
    /\ messages' = messages \o [i \in 1..Len(warnings) |-> Msg("build_warning", warnings[i])]
    /\ sdist_path' = find_dist_files(fs, TMP_DIR)[1]
    /\ wheel_path' = find_dist_files(fs, TMP_DIR)[2]
    /\ pc' = "presence"
    /\ UNCHANGED <<sys_platform, a_pre_built, a_rebuild, a_no_isolation, a_verbose, fs, config,
                   hatch, pre_built, tmpdir, releases, runs, built_any,
                   warnings, sdist_files, wheel_files, vcs_status, tracked, ran, errors, raised, success,
                   exit_code, stdout, stderr>>

\* check_dist, "except Exception" around the build: an exception that is an
\* Exception releases the temporary directory and is raised again; one that is
\* not (KeyboardInterrupt) passes the handler by
BuildExcept ==
    /\ pc = "build_except"
    /\ IF raised \in {"CheckDistError", "Exception"}
       THEN /\ tmpdir' = "removed"
            /\ releases' = releases + 1
       ELSE UNCHANGED <<tmpdir, releases>>
    /\ pc' = "raised"
    /\ UNCHANGED <<sys_platform, a_pre_built, a_rebuild, a_no_isolation, a_verbose, fs, config,
                   hatch, pre_built, sdist_path, wheel_path, runs, built_any,
                   warnings, sdist_files, wheel_files, vcs_status, tracked, ran, messages, errors, raised,
                   success, exit_code, stdout, stderr>>

\* the presence errors recorded for a missing kind after a build as well
Presence_reports_after_build ==
    /\ pc = "presence"
    /\ errors' = errors \o
          (IF sdist_path = None /\ wheel_path = None
           THEN <<PlainError("no_dists")>>
           ELSE (IF sdist_path = None THEN <<PlainError("no_sdist")>> ELSE <<>>)
                \o (IF wheel_path = None THEN <<PlainError("no_wheel")>> ELSE <<>>))
    /\ pc' = AfterPresence
    /\ UNCHANGED <<sys_platform, a_pre_built, a_rebuild, a_no_isolation, a_verbose, fs, config,
                   hatch, pre_built, sdist_path, wheel_path, tmpdir, releases,
                   runs, built_any, warnings, sdist_files, wheel_files, vcs_status, tracked, ran,
                   messages, raised, success, exit_code, stdout, stderr>>

\* check_dist, the errors for archives that were not found
Presence ==
    /\ pc = "presence"
    /\ errors' = errors \o
          (IF sdist_path = None /\ wheel_path = None
           THEN <<PlainError("no_dists")>>
           ELSE IF pre_built # None
           THEN (IF sdist_path = None THEN <<PlainError("no_sdist")>> ELSE <<>>)
                \o (IF wheel_path = None THEN <<PlainError("no_wheel")>> ELSE <<>>)
           ELSE <<>>)
    /\ pc' = AfterPresence
    /\ UNCHANGED <<sys_platform, a_pre_built, a_rebuild, a_no_isolation, a_verbose, fs, config,
                   hatch, pre_built, sdist_path, wheel_path, tmpdir, releases,
                   runs, built_any, warnings, sdist_files, wheel_files, vcs_status, tracked, ran,
                   messages, raised, success, exit_code, stdout, stderr>>

\* check_dist, the sdist is opened and listed; list_sdist_files raises on an
\* unknown format, and tarfile or zipfile raise on an unreadable archive
SdistList ==
    /\ pc = "sdist_list"
    /\ IF ~known_sdist_format(sdist_path)
       THEN /\ raised' = "CheckDistError"
            /\ pc' = "finally"
            /\ UNCHANGED <<sdist_files, messages>>
       ELSE \/ /\ \E members \in SdistArchives :
                     /\ sdist_files' = list_sdist_files(sdist_path, members)
                     /\ messages' = messages \o
                           ListingMessages("sdist", sdist_path,
                                           list_sdist_files(sdist_path, members), a_verbose)
               /\ pc' = "sdist_vcs"
               /\ UNCHANGED raised
            \/ /\ raised' = "Exception"
               /\ pc' = "finally"
               /\ UNCHANGED <<sdist_files, messages>>
    /\ UNCHANGED <<sys_platform, a_pre_built, a_rebuild, a_no_isolation, a_verbose, fs, config,
                   hatch, pre_built, sdist_path, wheel_path, tmpdir, releases,
                   runs, built_any, warnings, wheel_files, vcs_status, tracked, ran, errors, success,
                   exit_code, stdout, stderr>>

\* the comparison with the VCS that counts a failed query as an error
SdistVcs_failure_is_error ==
    /\ pc = "sdist_vcs"
    /\ \/ \E vcs_files \in TrackedFiles :
             /\ vcs_status' = "listed"
             /\ tracked' = vcs_files
             /\ errors' = errors \o check_sdist_vs_vcs(sys_platform, sdist_files, vcs_files, hatch,
                                                       config.sdist.absent)
             /\ ran' = Append(ran, <<"sdist", "vcs">>)
             /\ pc' = "sdist_present"
             /\ UNCHANGED <<messages, raised>>
       \/ \E failure \in {"git_not_found", "git_failed"} :
             /\ vcs_status' = failure
             /\ messages' = Append(messages, Msg("vcs_warning", failure))
             /\ pc' = "sdist_present"
             /\ errors' = Append(errors, PlainError(failure))
             /\ UNCHANGED <<tracked, ran, raised>>
       \/ /\ vcs_status' = "interrupted"
          /\ raised' = "KeyboardInterrupt"
          /\ pc' = "finally"
          /\ UNCHANGED <<tracked, errors, ran, messages>>
    /\ UNCHANGED <<sys_platform, a_pre_built, a_rebuild, a_no_isolation, a_verbose, fs, config,
                   hatch, pre_built, sdist_path, wheel_path, tmpdir, releases,
                   runs, built_any, warnings, sdist_files, wheel_files, success,
                   exit_code, stdout, stderr>>

\* check_dist, the sdist against the VCS: get_vcs_files returns the tracked files
\* and the comparison's errors are appended; or it raises CheckDistError (git is
\* missing, git ls-files exits non-zero) and a warning is appended instead; or
\* the wait for git is interrupted from the keyboard
SdistVcs ==
    /\ pc = "sdist_vcs"
    /\ \/ \E vcs_files \in TrackedFiles :
             /\ vcs_status' = "listed"
             /\ tracked' = vcs_files
             /\ errors' = errors \o check_sdist_vs_vcs(sys_platform, sdist_files, vcs_files, hatch,
                                                       config.sdist.absent)
             /\ ran' = Append(ran, <<"sdist", "vcs">>)
             /\ pc' = "sdist_present"
             /\ UNCHANGED <<messages, raised>>
       \/ \E failure \in {"git_not_found", "git_failed"} :
             /\ vcs_status' = failure
             /\ messages' = Append(messages, Msg("vcs_warning", failure))
             /\ pc' = "sdist_present"
             /\ UNCHANGED <<tracked, errors, ran, raised>>
       \/ /\ vcs_status' = "interrupted"
          /\ raised' = "KeyboardInterrupt"
          /\ pc' = "finally"
          /\ UNCHANGED <<tracked, errors, ran, messages>>
    /\ UNCHANGED <<sys_platform, a_pre_built, a_rebuild, a_no_isolation, a_verbose, fs, config,
                   hatch, pre_built, sdist_path, wheel_path, tmpdir, releases,
                   runs, built_any, warnings, sdist_files, wheel_files, success,
                   exit_code, stdout, stderr>>

\* the sdist presence check that ends the checks when it finds an error
SdistPresent_short_circuit ==
    /\ pc = "sdist_present"
    /\ errors' = errors \o check_present(sys_platform, sdist_files, config.sdist.present, "sdist")
    /\ ran' = Append(ran, <<"sdist", "present">>)
    /\ pc' = IF check_present(sys_platform, sdist_files, config.sdist.present, "sdist") # <<>>
             THEN "finally" ELSE "sdist_absent"
    /\ UNCHANGED <<sys_platform, a_pre_built, a_rebuild, a_no_isolation, a_verbose, fs, config,
                   hatch, pre_built, sdist_path, wheel_path, tmpdir, releases,
                   runs, built_any, warnings, sdist_files, wheel_files, vcs_status, tracked, messages,
                   raised, success, exit_code, stdout, stderr>>

\* check_dist, the patterns that must be present in the sdist
SdistPresent ==
    /\ pc = "sdist_present"
    /\ errors' = errors \o check_present(sys_platform, sdist_files, config.sdist.present, "sdist")
    /\ ran' = Append(ran, <<"sdist", "present">>)
    /\ pc' = "sdist_absent"
    /\ UNCHANGED <<sys_platform, a_pre_built, a_rebuild, a_no_isolation, a_verbose, fs, config,
                   hatch, pre_built, sdist_path, wheel_path, tmpdir, releases,
                   runs, built_any, warnings, sdist_files, wheel_files, vcs_status, tracked, messages,
                   raised, success, exit_code, stdout, stderr>>

\* check_dist, the patterns that must be absent from the sdist
SdistAbsent ==
    /\ pc = "sdist_absent"
    /\ errors' = errors \o check_absent(sys_platform, sdist_files, config.sdist.absent, "sdist",
                                     config.sdist.present)
    /\ ran' = Append(ran, <<"sdist", "absent">>)
    /\ pc' = "sdist_ext"
    /\ UNCHANGED <<sys_platform, a_pre_built, a_rebuild, a_no_isolation, a_verbose, fs, config,
                   hatch, pre_built, sdist_path, wheel_path, tmpdir, releases,
                   runs, built_any, warnings, sdist_files, wheel_files, vcs_status, tracked, messages,
                   raised, success, exit_code, stdout, stderr>>

\* check_dist, the wrong-platform extensions in the sdist
SdistExt ==
    /\ pc = "sdist_ext"
    /\ errors' = errors \o check_wrong_platform_extensions(sys_platform, sdist_files, "sdist")
    /\ ran' = Append(ran, <<"sdist", "wrong_ext">>)
    /\ pc' = AfterSdist
    /\ UNCHANGED <<sys_platform, a_pre_built, a_rebuild, a_no_isolation, a_verbose, fs, config,
                   hatch, pre_built, sdist_path, wheel_path, tmpdir, releases,
                   runs, built_any, warnings, sdist_files, wheel_files, vcs_status, tracked, messages,
                   raised, success, exit_code, stdout, stderr>>

\* check_dist, the wheel is opened and listed; zipfile raises on an unreadable
\* archive
WheelList ==
    /\ pc = "wheel_list"
    /\ \/ /\ \E members \in WheelArchives :
                /\ wheel_files' = list_wheel_files(members)
                /\ messages' = messages \o
                      ListingMessages("wheel", wheel_path, list_wheel_files(members), a_verbose)
          /\ pc' = "wheel_present"
          /\ UNCHANGED raised
       \/ /\ raised' = "Exception"
          /\ pc' = "finally"
          /\ UNCHANGED <<wheel_files, messages>>
    /\ UNCHANGED <<sys_platform, a_pre_built, a_rebuild, a_no_isolation, a_verbose, fs, config,
                   hatch, pre_built, sdist_path, wheel_path, tmpdir, releases,
                   runs, built_any, warnings, sdist_files, vcs_status, tracked, ran, errors, success,
                   exit_code, stdout, stderr>>

\* check_dist, the patterns that must be present in the wheel
WheelPresent ==
    /\ pc = "wheel_present"
    /\ errors' = errors \o check_present(sys_platform, wheel_files, config.wheel.present, "wheel")
    /\ ran' = Append(ran, <<"wheel", "present">>)
    /\ pc' = "wheel_absent"
    /\ UNCHANGED <<sys_platform, a_pre_built, a_rebuild, a_no_isolation, a_verbose, fs, config,
                   hatch, pre_built, sdist_path, wheel_path, tmpdir, releases,
                   runs, built_any, warnings, sdist_files, wheel_files, vcs_status, tracked, messages,
                   raised, success, exit_code, stdout, stderr>>

\* check_dist, the patterns that must be absent from the wheel
WheelAbsent ==
    /\ pc = "wheel_absent"
    /\ errors' = errors \o check_absent(sys_platform, wheel_files, config.wheel.absent, "wheel",
                                     config.wheel.present)
    /\ ran' = Append(ran, <<"wheel", "absent">>)
    /\ pc' = "wheel_ext"
    /\ UNCHANGED <<sys_platform, a_pre_built, a_rebuild, a_no_isolation, a_verbose, fs, config,
                   hatch, pre_built, sdist_path, wheel_path, tmpdir, releases,
                   runs, built_any, warnings, sdist_files, wheel_files, vcs_status, tracked, messages,
                   raised, success, exit_code, stdout, stderr>>

\* check_dist, the wrong-platform extensions in the wheel
WheelExt ==
    /\ pc = "wheel_ext"
    /\ errors' = errors \o check_wrong_platform_extensions(sys_platform, wheel_files, "wheel")
    /\ ran' = Append(ran, <<"wheel", "wrong_ext">>)
    /\ pc' = "finally"
    /\ UNCHANGED <<sys_platform, a_pre_built, a_rebuild, a_no_isolation, a_verbose, fs, config,
                   hatch, pre_built, sdist_path, wheel_path, tmpdir, releases,
                   runs, built_any, warnings, sdist_files, wheel_files, vcs_status, tracked, messages,
                   raised, success, exit_code, stdout, stderr>>

\* check_dist, the finally clause: the temporary directory is released when no
\* pre-built directory is in use; then the exception in flight, if any, goes on
Finally ==
    /\ pc = "finally"
    /\ IF pre_built = None
       THEN /\ tmpdir' = "removed"
            /\ releases' = releases + 1
       ELSE UNCHANGED <<tmpdir, releases>>
    /\ pc' = IF raised = "none" THEN "report" ELSE "raised"
    /\ UNCHANGED <<sys_platform, a_pre_built, a_rebuild, a_no_isolation, a_verbose, fs, config,
                   hatch, pre_built, sdist_path, wheel_path, runs, built_any,
                   warnings, sdist_files, wheel_files, vcs_status, tracked, ran, messages, errors, raised,
                   success, exit_code, stdout, stderr>>

\* check_dist, the end: the count and one ERROR line per error and failure, or
\* the line that all checks passed and success
Report ==
    /\ pc = "report"
    /\ IF errors # <<>>
       THEN /\ messages' = messages \o ErrorBlock(errors)
            /\ success' = FALSE
       ELSE /\ messages' = Append(messages, Msg("passed", <<>>))
            /\ success' = TRUE
    /\ pc' = "returned"
    /\ UNCHANGED <<sys_platform, a_pre_built, a_rebuild, a_no_isolation, a_verbose, fs, config,
                   hatch, pre_built, sdist_path, wheel_path, tmpdir, releases,
                   runs, built_any, warnings, sdist_files, wheel_files, vcs_status, tracked, ran,
                   errors, raised, exit_code, stdout, stderr>>

\* ------------------------------------------------ the command line, continued

\* main, after check_dist returned: every message is printed and the exit code is
\* 0 on success and 1 otherwise
MainPrint ==
    /\ pc = "returned"
    /\ stdout' = stdout \o messages
    /\ exit_code' = <<IF success THEN 0 ELSE 1>>
    /\ pc' = "exited"
    /\ UNCHANGED <<sys_platform, a_pre_built, a_rebuild, a_no_isolation, a_verbose, fs, config,
                   hatch, pre_built, sdist_path, wheel_path, tmpdir, releases,
                   runs, built_any, warnings, sdist_files, wheel_files, vcs_status, tracked, ran,
                   messages, errors, raised, success, stderr>>

\* the handler of main that also prints what check_dist had collected
MainCatch_prints_messages ==
    /\ pc = "raised"
    /\ IF raised = "CheckDistError"
       THEN /\ stderr' = Append(stderr, Msg("Error", <<>>))
            /\ exit_code' = <<2>>
            /\ stdout' = stdout \o messages
            /\ pc' = "exited"
       ELSE /\ pc' = "unhandled"
            /\ UNCHANGED <<stderr, exit_code, stdout>>
    /\ UNCHANGED <<sys_platform, a_pre_built, a_rebuild, a_no_isolation, a_verbose, fs, config,
                   hatch, pre_built, sdist_path, wheel_path, tmpdir, releases,
                   runs, built_any, warnings, sdist_files, wheel_files, vcs_status, tracked, ran,
                   messages, errors, raised, success>>

\* main, after check_dist raised: a CheckDistError is printed on standard error and
\* the exit code is 2; any other exception leaves main unhandled
MainCatch ==
    /\ pc = "raised"
    /\ IF raised = "CheckDistError"
       THEN /\ stderr' = Append(stderr, Msg("Error", <<>>))
            /\ exit_code' = <<2>>
            /\ pc' = "exited"
       ELSE /\ pc' = "unhandled"
            /\ UNCHANGED <<stderr, exit_code>>
    /\ UNCHANGED <<sys_platform, a_pre_built, a_rebuild, a_no_isolation, a_verbose, fs, config,
                   hatch, pre_built, sdist_path, wheel_path, tmpdir, releases,
                   runs, built_any, warnings, sdist_files, wheel_files, vcs_status, tracked, ran,
                   messages, errors, raised, success, stdout>>

\* ==================================================================
\* A call of a checking helper (SpecCheck)
\* ==================================================================

F_LIB_DLL == <<"l", "i", "b", ".", "d", "l", "l">>

F_LIB_DYLIB == <<"p", "k", "g", "/", "l", "i", "b", ".", "d", "y", "l", "i", "b">>

F_DOT_PYD == <<".", "p", "y", "d">>

F_NESTED_PYPROJECT == <<"p", "k", "g", "/", "t", "e", "s", "t", "s", "/", "p", "y", "p", "r", "o", "j", "e", "c", "t", ".", "t", "o", "m", "l">>

GLOB_SO == <<"*", ".", "s", "o">>

M_PYD == <<"m", ".", "p", "y", "d">>

\* the archive members a listing may hold
CheckFilePool ==
    {F_PKG_INIT, F_PKG_SO, F_PKG_PYD, F_LIB_DLL, F_LIB_DYLIB, F_DOT_PYD,
     F_NESTED_PYPROJECT, PYPROJECT}

\* list_sdist_files and list_wheel_files return sorted lists
CheckFileLists == {sorted(T) : T \in {U \in SUBSET CheckFilePool : Cardinality(U) <= MaxCheckFiles}}

\* the patterns a configuration may list
CheckPatternPool == {PKG, PYPROJECT, GLOB_SO, M_PYD, TESTS}

\* the lists over a pool of at most n entries, duplicates allowed
RECURSIVE ListsUpTo(_, _)
ListsUpTo(pool, n) ==
    IF n = 0 THEN {<<>>}
    ELSE LET shorter == ListsUpTo(pool, n - 1)
         IN  shorter \cup {Append(s, x) : s \in {y \in shorter : Len(y) = n - 1}, x \in pool}

CheckPatternLists == ListsUpTo(CheckPatternPool, MaxCheckPatterns)

\* present_patterns as check_dist passes it: the present list of the same kind
PresentPatternLists == {<<>>, <<PKG>>, <<GLOB_SO>>, <<PYPROJECT, M_PYD>>}

CheckIdle ==
    /\ k_pc = "idle"
    /\ k_plat = "linux"
    /\ k_files = <<>>
    /\ k_patterns = <<>>
    /\ k_present_patterns = <<>>
    /\ k_vcs = <<>>
    /\ k_hatch = NoHatchConfig
    /\ k_path = None
    /\ k_members = <<>>
    /\ k_listing = <<>>
    /\ k_dir = NoDir
    /\ k_found = <<None, None>>
    /\ k_errors = <<>>

InitCheck ==
    /\ k_pc = "call"
    /\ k_plat \in Platforms
    /\ k_files = <<>>
    /\ k_patterns = <<>>
    /\ k_present_patterns = <<>>
    /\ k_vcs = <<>>
    /\ k_hatch = NoHatchConfig
    /\ k_path = None
    /\ k_members = <<>>
    /\ k_listing = <<>>
    /\ k_dir = NoDir
    /\ k_found = <<None, None>>
    /\ k_errors = <<>>

\* check_present(files, patterns, dist_type) is called and returns
CallCheckPresent ==
    /\ k_pc = "call"
    /\ \E files \in CheckFileLists, patterns \in CheckPatternLists :
          /\ k_files' = files
          /\ k_patterns' = patterns
          /\ k_errors' = check_present(k_plat, files, patterns, "sdist")
    /\ k_pc' = "check_present"
    /\ UNCHANGED <<k_plat, k_present_patterns, k_vcs, k_hatch, k_path, k_members, k_listing, k_dir,
                   k_found>>

\* check_absent(files, patterns, dist_type, present_patterns=...) is called and
\* returns
CallCheckAbsent ==
    /\ k_pc = "call"
    /\ \E files \in CheckFileLists, patterns \in CheckPatternLists,
          present_patterns \in PresentPatternLists :
          /\ k_files' = files
          /\ k_patterns' = patterns
          /\ k_present_patterns' = present_patterns
          /\ k_errors' = check_absent(k_plat, files, patterns, "sdist", present_patterns)
    /\ k_pc' = "check_absent"
    /\ UNCHANGED <<k_plat, k_vcs, k_hatch, k_path, k_members, k_listing, k_dir, k_found>>

\* check_wrong_platform_extensions(files, dist_type) is called and returns
CallCheckWrongPlatformExtensions ==
    /\ k_pc = "call"
    /\ \E files \in CheckFileLists :
          /\ k_files' = files
          /\ k_errors' = check_wrong_platform_extensions(k_plat, files, "wheel")
    /\ k_pc' = "check_wrong_platform_extensions"
    /\ UNCHANGED <<k_plat, k_patterns, k_present_patterns, k_vcs, k_hatch, k_path, k_members,
                   k_listing, k_dir, k_found>>

\* the files a source tree or an sdist may hold when the two are reconciled
F_GITIGNORE == <<".", "g", "i", "t", "i", "g", "n", "o", "r", "e">>

F_EGG_SOURCES == <<"p", ".", "e", "g", "g", "-", "i", "n", "f", "o", "/", "S">>

ReconcilePool ==
    {PKG_INFO, F_EGG_SOURCES, F_PKG_INIT, F_PKG_SO, PYPROJECT, F_DOCS_INDEX, F_GITIGNORE}

\* list_sdist_files returns a sorted list
ReconcileSdistLists ==
    {sorted(T) : T \in {U \in SUBSET ReconcilePool : Cardinality(U) <= MaxCheckFiles}}

\* get_vcs_files returns a sorted list
ReconcileVcsLists ==
    {sorted(T) : T \in {U \in SUBSET ReconcilePool : Cardinality(U) <= MaxVcsFiles}}

\* [tool.hatch.build] tables: none, packages, artifacts, an exclude
ArtifactsHatchConfig == [NoHatchConfig EXCEPT !.artifacts = <<GLOB_SO>>]

ExcludeHatchConfig == [NoHatchConfig EXCEPT !.exclude = <<PYPROJECT>>]

ReconcileHatchConfigs ==
    {NoHatchConfig, PackagesHatchConfig, ArtifactsHatchConfig, ExcludeHatchConfig}

\* the sdist absent list of the configuration
SdistAbsentLists == {<<>>, <<PYPROJECT>>, <<PKG>>}

\* check_sdist_vs_vcs(sdist_files, vcs_files, hatch_config, sdist_absent) is
\* called and returns
CallCheckSdistVsVcs ==
    /\ k_pc = "call"
    /\ \E files \in ReconcileSdistLists, vcs_files \in ReconcileVcsLists,
          hatch_config \in ReconcileHatchConfigs, sdist_absent \in SdistAbsentLists :
          /\ k_files' = files
          /\ k_vcs' = vcs_files
          /\ k_hatch' = hatch_config
          /\ k_patterns' = sdist_absent
          /\ k_errors' = check_sdist_vs_vcs(k_plat, files, vcs_files, hatch_config, sdist_absent)
    /\ k_pc' = "check_sdist_vs_vcs"
    /\ UNCHANGED <<k_plat, k_present_patterns, k_path, k_members, k_listing, k_dir, k_found>>

MaxMembers == 3

F_A_TOML == <<"r", "o", "o", "t", "/", "a", ".", "t", "o", "m", "l">>

F_SUB_B_PY == <<"r", "o", "o", "t", "/", "s", "u", "b", "/", "b", ".", "p", "y">>

F_TOP == <<"t", "o", "p">>

F_SUB == <<"r", "o", "o", "t", "/", "s", "u", "b">>

F_L_PY == <<"r", "o", "o", "t", "/", "l", ".", "p", "y">>

F_OTHER_A_TOML == <<"o", "t", "h", "e", "r", "/", "a", ".", "t", "o", "m", "l">>

\* a member that is neither a regular file nor a directory (a symbolic or hard
\* link): tarfile's isfile() is false for it, and its name has no trailing
\* separator
Link(name) == [name |-> name, isfile |-> FALSE]

\* the members an archive may hold
MemberPool ==
    {File(F_A_TOML), File(F_SUB_B_PY), File(F_TOP), Folder(F_SUB), Link(F_L_PY),
     File(F_OTHER_A_TOML)}

\* the member lists of an archive: no member twice, any order
MemberLists ==
    {s \in ListsUpTo(MemberPool, MaxMembers) : \A i, j \in 1..Len(s) : s[i] = s[j] => i = j}

\* the paths of the archives: a gzip tar, a zip and a wheel
ArchivePaths == {join(DIST, N_TGZ), join(DIST, N_ZIP), join(DIST, N_WHL)}

\* list_sdist_files(sdist_path) is called and returns, or raises CheckDistError
\* for a path that ends in neither .tar.gz nor .zip
CallListSdistFiles ==
    /\ k_pc = "call"
    /\ \E path \in ArchivePaths, members \in MemberLists :
          /\ k_path' = path
          /\ k_members' = members
          /\ IF known_sdist_format(path)
             THEN /\ k_listing' = list_sdist_files(path, members)
                  /\ k_pc' = "list_sdist_files"
             ELSE /\ k_listing' = <<>>
                  /\ k_pc' = "CheckDistError"
    /\ UNCHANGED <<k_plat, k_files, k_patterns, k_present_patterns, k_vcs, k_hatch, k_dir, k_found,
                   k_errors>>

\* list_wheel_files(wheel_path) is called and returns
CallListWheelFiles ==
    /\ k_pc = "call"
    /\ \E members \in MemberLists :
          /\ k_path' = join(DIST, N_WHL)
          /\ k_members' = members
          /\ k_listing' = list_wheel_files(members)
    /\ k_pc' = "list_wheel_files"
    /\ UNCHANGED <<k_plat, k_files, k_patterns, k_present_patterns, k_vcs, k_hatch, k_dir, k_found,
                   k_errors>>

N_WHL_OTHER == <<"q", ".", "w", "h", "l">>

\* the directories find_dist_files may be given: missing, or a listing of up to
\* MaxDirEntries entries in any order, among them two sdists and two wheels
ScannedDirs ==
    {NoDir} \cup
    {Dir(s) : s \in {x \in ListsUpTo(EntryNames \cup {N_WHL_OTHER}, MaxDirEntries) :
                        \A i, j \in 1..Len(x) : x[i] = x[j] => i = j}}

\* find_dist_files(output_dir) is called and returns
CallFindDistFiles ==
    /\ k_pc = "call"
    /\ \E d \in ScannedDirs :
          /\ k_dir' = d
          /\ k_found' = find_dist_files(FileSystem(d, NoDir, NoDir), DIST)
    /\ k_pc' = "find_dist_files"
    /\ UNCHANGED <<k_plat, k_files, k_patterns, k_present_patterns, k_vcs, k_hatch, k_path,
                   k_members, k_listing, k_errors>>

\* ==================================================================
\* The configuration (SpecConfig): load_config, copier_defaults,
\* _filter_extras_by_hatch
\* ==================================================================

CPP == <<"c", "p", "p">>

JS == <<"j", "s">>

SRC == <<"s", "r", "c">>

CARGO_LOCK == <<"C", "a", "r", "g", "o", ".", "l", "o", "c", "k">>

CLANG_FORMAT == <<".", "c", "l", "a", "n", "g", "-", "f", "o", "r", "m", "a", "t">>

GITATTRIBUTES == <<".", "g", "i", "t", "a", "t", "t", "r", "i", "b", "u", "t", "e", "s">>

VSCODE == <<".", "v", "s", "c", "o", "d", "e">>

LICENSE == <<"L", "I", "C", "E", "N", "S", "E">>

README_MD == <<"R", "E", "A", "D", "M", "E", ".", "m", "d">>

\* the categories of _EXTENSION_DEFAULTS, in the order of the table
ExtensionCategories == <<"cpp", "rust", "js", "jupyter", "rustjswasm", "cppjswasm", "python">>

_EXTENSION_DEFAULTS ==
    [c \in ToSet(ExtensionCategories) |->
        CASE c = "cpp" ->
               [sdist_present_extra |-> <<CPP>>,
                sdist_absent_extra |-> <<CLANG_FORMAT>>,
                wheel_absent_extra |-> <<CPP>>]
          [] c = "rust" ->
               [sdist_present_extra |-> <<RUST, CARGO_TOML, CARGO_LOCK>>,
                sdist_absent_extra |-> <<GITATTRIBUTES, VSCODE, TARGET>>,
                wheel_absent_extra |-> <<RUST, SRC, CARGO_TOML>>]
          [] c \in {"js", "jupyter"} ->
               [sdist_present_extra |-> <<JS>>,
                sdist_absent_extra |-> <<GITATTRIBUTES, VSCODE>>,
                wheel_absent_extra |-> <<JS>>]
          [] c = "rustjswasm" ->
               [sdist_present_extra |-> <<JS, RUST, CARGO_TOML, CARGO_LOCK>>,
                sdist_absent_extra |-> <<GITATTRIBUTES, VSCODE, TARGET>>,
                wheel_absent_extra |-> <<JS, RUST, SRC, CARGO_TOML>>]
          [] c = "cppjswasm" ->
               [sdist_present_extra |-> <<CPP, JS>>,
                sdist_absent_extra |-> <<CLANG_FORMAT, VSCODE>>,
                wheel_absent_extra |-> <<JS, CPP>>]
          [] c = "python" ->
               [sdist_present_extra |-> <<>>,
                sdist_absent_extra |-> <<>>,
                wheel_absent_extra |-> <<>>]]

_COMMON_SDIST_PRESENT == <<LICENSE, PYPROJECT, README_MD>>

_COMMON_WHEEL_ABSENT ==
    <<F_GITIGNORE, COPIER_ANSWERS, MAKEFILE, PYPROJECT, DOT_GITHUB, DIST, DOCS, EXAMPLES, TESTS>>

\* the characters the class [\s-] of _module_name_from_project matches
IsNameSeparator(c) == c \in {" ", "-"}

\* re.sub(r"[\s-]+", "_", s): every maximal run of separators becomes one "_"
RECURSIVE SubSeparators(_)
SubSeparators(s) ==
    IF s = <<>> THEN <<>>
    ELSE IF IsNameSeparator(s[1])
         THEN LET rest == Tail(s)
                  run == IF \A i \in 1..Len(rest) : IsNameSeparator(rest[i])
                         THEN Len(rest)
                         ELSE SeqMin({i \in 1..Len(rest) : ~IsNameSeparator(rest[i])}) - 1
              IN  <<"_">> \o SubSeparators(SubSeq(rest, run + 1, Len(rest)))
         ELSE <<s[1]>> \o SubSeparators(Tail(s))

\* str.strip("_")
RECURSIVE StripUnderscore(_)
StripUnderscore(s) ==
    IF s = <<>> THEN <<>>
    ELSE IF s[1] = "_" THEN StripUnderscore(Tail(s))
    ELSE IF s[Len(s)] = "_" THEN StripUnderscore(SubSeq(s, 1, Len(s) - 1))
    ELSE s

_module_name_from_project(project_name) == StripUnderscore(SubSeparators(project_name))

\* _filter_extras_by_hatch that also keeps the destinations of the global
\* force-include table when the sdist target has a table of its own
_filter_extras_by_hatch_both_tables(extras, hatch_config) ==
    LET allowed ==
            IF hatch_config.has_only_include THEN ToSet(hatch_config.only_include)
            ELSE ToSet(hatch_config.packages)
        force_paths ==
            {StripSlash(v) : v \in ToSet(hatch_config.force_include)
                                   \cup ToSet(hatch_config.global_force_include)}
    IN  IF hatch_config.has_only_include \/ hatch_config.has_packages
        THEN Filter(extras, allowed \cup force_paths)
        ELSE IF hatch_config.has_include
        THEN Filter(extras, ToSet(hatch_config.include) \cup force_paths)
        ELSE extras

\* _filter_extras_by_hatch: with only-include, else packages, else include in
\* the sdist target, the extras that are listed there or are a force-include
\* destination; all the extras when the target has none of the three
_filter_extras_by_hatch(extras, hatch_config) ==
    LET allowed ==
            IF hatch_config.has_only_include THEN ToSet(hatch_config.only_include)
            ELSE ToSet(hatch_config.packages)
        force_paths == {StripSlash(v) : v \in ToSet(force_include_in_effect(hatch_config))}
    IN  IF hatch_config.has_only_include \/ hatch_config.has_packages
        THEN Filter(extras, allowed \cup force_paths)
        ELSE IF hatch_config.has_include
        THEN Filter(extras, ToSet(hatch_config.include) \cup force_paths)
        ELSE extras

\* .copier-answers.yaml as load_copier_config reads it: kind is "missing" (no
\* file), "empty" (safe_load gives None), "mapping", or "not_mapping" (the
\* document is a scalar or a sequence); has_x is "the key x is present"
NoAnswers ==
    [kind |-> "missing", has_add_extension |-> FALSE, add_extension |-> "",
     has_project_name |-> FALSE, project_name |-> <<>>]

\* load_copier_config: the mapping of the answers file, {} when there is no file
\* or the document is empty; any other document is returned as it is
load_copier_config(answers) ==
    IF answers.kind \in {"missing", "empty"}
    THEN [NoAnswers EXCEPT !.kind = "mapping"]
    ELSE answers

\* copier_defaults without the filter of the extras
copier_defaults_unfiltered(copier_config, hatch_given, hatch_config) ==
    IF copier_config.kind = "not_mapping"
    THEN [raised |-> "AttributeError", none |-> TRUE, defaults |-> EmptyConfig]
    ELSE LET extension == copier_config.add_extension
             project_name == copier_config.project_name
         IN  IF extension = "" \/ project_name = <<>>
             THEN [raised |-> "none", none |-> TRUE, defaults |-> EmptyConfig]
             ELSE IF extension \notin DOMAIN _EXTENSION_DEFAULTS
             THEN [raised |-> "none", none |-> TRUE, defaults |-> EmptyConfig]
             ELSE LET ext_defaults == _EXTENSION_DEFAULTS[extension]
                      module == _module_name_from_project(project_name)
                  IN  [raised |-> "none", none |-> FALSE,
                       defaults |->
                          [sdist |-> [present |-> <<module>> \o ext_defaults.sdist_present_extra
                                                   \o _COMMON_SDIST_PRESENT,
                                      absent |-> _COMMON_SDIST_ABSENT
                                                   \o ext_defaults.sdist_absent_extra],
                           wheel |-> [present |-> <<module>>,
                                      absent |-> _COMMON_WHEEL_ABSENT
                                                   \o ext_defaults.wheel_absent_extra]]]

\* copier_defaults(copier_config, hatch_config=None): None (the field none)
\* when the category or the project name is missing or empty or the category is
\* not in the table;
\* hatch_given is "hatch_config was passed"; a table with none of the keys read
\* below filters nothing, as the empty table does
copier_defaults(copier_config, hatch_given, hatch_config) ==
    IF copier_config.kind = "not_mapping"
    THEN [raised |-> "AttributeError", none |-> TRUE, defaults |-> EmptyConfig]
    ELSE LET extension == copier_config.add_extension
             project_name == copier_config.project_name
         IN  IF extension = "" \/ project_name = <<>>
             THEN [raised |-> "none", none |-> TRUE, defaults |-> EmptyConfig]
             ELSE IF extension \notin DOMAIN _EXTENSION_DEFAULTS
             THEN [raised |-> "none", none |-> TRUE, defaults |-> EmptyConfig]
             ELSE LET ext_defaults == _EXTENSION_DEFAULTS[extension]
                      module == _module_name_from_project(project_name)
                      sdist_present_extra ==
                          IF hatch_given /\ hatch_config # NoHatchConfig
                          THEN _filter_extras_by_hatch(ext_defaults.sdist_present_extra,
                                                       hatch_config)
                          ELSE ext_defaults.sdist_present_extra
                  IN  [raised |-> "none", none |-> FALSE,
                       defaults |->
                          [sdist |-> [present |-> <<module>> \o sdist_present_extra
                                                   \o _COMMON_SDIST_PRESENT,
                                      absent |-> _COMMON_SDIST_ABSENT
                                                   \o ext_defaults.sdist_absent_extra],
                           wheel |-> [present |-> <<module>>,
                                      absent |-> _COMMON_WHEEL_ABSENT
                                                   \o ext_defaults.wheel_absent_extra]]]

\* the [tool.check-dist] table of pyproject.toml: keys is the set of its keys,
\* and a list whose key is missing is empty, as cd.get(key, []) gives
NoCheckDist ==
    [keys |-> {}, present |-> <<>>, absent |-> <<>>,
     sdist |-> [present |-> <<>>, absent |-> <<>>],
     wheel |-> [present |-> <<>>, absent |-> <<>>]]

\* pyproject.toml: exists, has_check_dist ("tool" has the key "check-dist"), the
\* check-dist table and the [tool.hatch.build] table
NoPyproject ==
    [exists |-> FALSE, has_check_dist |-> FALSE, cd |-> NoCheckDist, hatch |-> NoHatchConfig]

\* load_config that takes the defaults only when "tool" has no "check-dist" key
load_config_absent_only(pyproject, answers, source_dir_given) ==
    IF ~pyproject.exists
    THEN IF source_dir_given
         THEN LET r == copier_defaults(load_copier_config(answers), FALSE, NoHatchConfig)
              IN  [raised |-> r.raised, config |-> r.defaults]
         ELSE [raised |-> "none", config |-> EmptyConfig]
    ELSE IF ~pyproject.has_check_dist
    THEN LET r == copier_defaults(load_copier_config(answers), TRUE, pyproject.hatch)
         IN  [raised |-> r.raised, config |-> r.defaults]
    ELSE LET cd == pyproject.cd
         IN  [raised |-> "none",
              config |->
                 [sdist |-> [present |-> cd.present \o cd.sdist.present,
                             absent |-> cd.absent \o cd.sdist.absent],
                  wheel |-> [present |-> cd.present \o cd.wheel.present,
                             absent |-> cd.absent \o cd.wheel.absent]]]

\* load_config(pyproject_path, source_dir=...): the defaults of the template
\* when there is no pyproject.toml and source_dir is given, or when the
\* check-dist table is missing or has no key; the empty configuration when
\* copier_defaults returns None; otherwise the base lists followed by the lists
\* of the kind
load_config(pyproject, answers, source_dir_given) ==
    IF ~pyproject.exists
    THEN IF source_dir_given
         THEN LET r == copier_defaults(load_copier_config(answers), FALSE, NoHatchConfig)
              IN  [raised |-> r.raised, config |-> r.defaults]
         ELSE [raised |-> "none", config |-> EmptyConfig]
    ELSE IF ~pyproject.has_check_dist \/ pyproject.cd.keys = {}
    THEN LET r == copier_defaults(load_copier_config(answers), TRUE, pyproject.hatch)
         IN  [raised |-> r.raised, config |-> r.defaults]
    ELSE LET cd == pyproject.cd
         IN  [raised |-> "none",
              config |->
                 [sdist |-> [present |-> cd.present \o cd.sdist.present,
                             absent |-> cd.absent \o cd.sdist.absent],
                  wheel |-> [present |-> cd.present \o cd.wheel.present,
                             absent |-> cd.absent \o cd.wheel.absent]]]

MaxConfigList == 2

JS_ANCHORED == <<"/", "j", "s", "/">>

NAME_PKG == PKG

NAME_MY_PKG == <<"m", "y", "-", "p", "k", "g">>

NAME_SPACED == <<"a", " ", "-", " ", "b", "_">>

\* [tool.hatch.build] tables: only-include, packages and include of the sdist
\* target missing or given, an exclude, the two force-include tables
ConfigHatchConfigs ==
    {[has_only_include |-> oi.has, only_include |-> oi.val,
      has_packages |-> pk.has, packages |-> pk.val,
      has_include |-> inc.has, include |-> inc.val,
      exclude |-> exc, force_include |-> fi,
      global_force_include |-> gfi, artifacts |-> <<>>] :
        oi \in {[has |-> FALSE, val |-> <<>>], [has |-> TRUE, val |-> <<>>],
                [has |-> TRUE, val |-> <<RUST>>]},
        pk \in {[has |-> FALSE, val |-> <<>>], [has |-> TRUE, val |-> <<JS>>]},
        inc \in {[has |-> FALSE, val |-> <<>>], [has |-> TRUE, val |-> <<CARGO_TOML>>]},
        exc \in {<<>>, <<RUST>>},
        fi \in {<<>>, <<JS_ANCHORED>>},
        gfi \in {<<>>, <<CARGO_LOCK>>}}

\* the mappings an answers file may hold: add_extension missing, empty, a
\* category of the table or another word; project_name missing, empty or a name
AnswersMappings ==
    {[kind |-> "mapping", has_add_extension |-> e.has, add_extension |-> e.val,
      has_project_name |-> n.has, project_name |-> n.val] :
        e \in {[has |-> FALSE, val |-> ""], [has |-> TRUE, val |-> ""],
               [has |-> TRUE, val |-> "fortran"]}
              \cup {[has |-> TRUE, val |-> c] : c \in ToSet(ExtensionCategories)},
        n \in {[has |-> FALSE, val |-> <<>>]}
              \cup {[has |-> TRUE, val |-> v] :
                       v \in {<<>>, NAME_PKG, NAME_MY_PKG, NAME_SPACED}}}

AnswersFiles ==
    {NoAnswers, [NoAnswers EXCEPT !.kind = "empty"], [NoAnswers EXCEPT !.kind = "not_mapping"]}
        \cup AnswersMappings

\* the [tool.check-dist] tables: a key is in the table when its list, or one of
\* the lists of its sub-table, is not empty; and the table whose only key is an
\* empty sdist sub-table
CheckDistTables ==
    {[keys |-> {k \in {"present"} : bp # <<>>} \cup {k \in {"absent"} : ba # <<>>}
                   \cup {k \in {"sdist"} : sp # <<>> \/ sa # <<>>}
                   \cup {k \in {"wheel"} : wp # <<>> \/ wa # <<>>},
      present |-> bp, absent |-> ba,
      sdist |-> [present |-> sp, absent |-> sa],
      wheel |-> [present |-> wp, absent |-> wa]] :
        bp \in ListsUpTo({PKG, TESTS}, MaxConfigList),
        ba \in {<<>>, <<TESTS>>},
        sp \in {<<>>, <<PKG>>, <<DOCS, PKG>>},
        sa \in {<<>>, <<DOCS>>},
        wp \in {<<>>, <<PKG>>},
        wa \in {<<>>, <<PYPROJECT, TESTS>>}}
        \cup {[NoCheckDist EXCEPT !.keys = {"sdist"}]}

\* pyproject.toml: missing; without a check-dist table or with one that has no
\* key, under every build table; with a check-dist table that has keys
Pyprojects ==
    {NoPyproject}
        \cup {[exists |-> TRUE, has_check_dist |-> h, cd |-> NoCheckDist, hatch |-> hc] :
                 h \in BOOLEAN, hc \in ConfigHatchConfigs}
        \cup {[exists |-> TRUE, has_check_dist |-> TRUE, cd |-> cd, hatch |-> NoHatchConfig] :
                 cd \in CheckDistTables}

\* the lists of extras of the table
ExtrasLists == {_EXTENSION_DEFAULTS[c].sdist_present_extra : c \in ToSet(ExtensionCategories)}

ConfigIdle ==
    /\ c_pc = "idle"
    /\ c_pyproject = NoPyproject
    /\ c_answers = NoAnswers
    /\ c_source_dir = FALSE
    /\ c_hatch_given = FALSE
    /\ c_hatch = NoHatchConfig
    /\ c_extras = <<>>
    /\ c_kept = <<>>
    /\ c_none = FALSE
    /\ c_config = EmptyConfig
    /\ c_raised = "none"

InitConfig ==
    /\ c_pc = "call"
    /\ c_pyproject = NoPyproject
    /\ c_answers = NoAnswers
    /\ c_source_dir = FALSE
    /\ c_hatch_given = FALSE
    /\ c_hatch = NoHatchConfig
    /\ c_extras = <<>>
    /\ c_kept = <<>>
    /\ c_none = FALSE
    /\ c_config = EmptyConfig
    /\ c_raised = "none"

\* load_config(pyproject_path, source_dir=...) is called and returns or raises
CallLoadConfig ==
    /\ c_pc = "call"
    /\ \E pyproject \in Pyprojects, answers \in AnswersFiles, source_dir_given \in BOOLEAN :
          LET r == load_config(pyproject, answers, source_dir_given)
          IN  /\ c_pyproject' = pyproject
              /\ c_answers' = answers
              /\ c_source_dir' = source_dir_given
              /\ c_config' = r.config
              /\ c_raised' = r.raised
    /\ c_pc' = "load_config"
    /\ UNCHANGED <<c_hatch_given, c_hatch, c_extras, c_kept, c_none>>

\* copier_defaults(copier_config, hatch_config=...) is called and returns
CallCopierDefaults ==
    /\ c_pc = "call"
    /\ \E copier_config \in AnswersMappings, hatch_given \in BOOLEAN,
          hatch_config \in ConfigHatchConfigs :
          LET r == copier_defaults(copier_config, hatch_given, hatch_config)
          IN  /\ hatch_given \/ hatch_config = NoHatchConfig
              /\ c_answers' = copier_config
              /\ c_hatch_given' = hatch_given
              /\ c_hatch' = hatch_config
              /\ c_none' = r.none
              /\ c_config' = r.defaults
              /\ c_raised' = r.raised
    /\ c_pc' = "copier_defaults"
    /\ UNCHANGED <<c_pyproject, c_source_dir, c_extras, c_kept>>

\* _filter_extras_by_hatch(extras, hatch_config) is called and returns
CallFilterExtrasByHatch ==
    /\ c_pc = "call"
    /\ \E extras \in ExtrasLists, hatch_config \in ConfigHatchConfigs :
          /\ c_extras' = extras
          /\ c_hatch' = hatch_config
          /\ c_kept' = _filter_extras_by_hatch(extras, hatch_config)
    /\ c_pc' = "_filter_extras_by_hatch"
    /\ UNCHANGED <<c_pyproject, c_answers, c_source_dir, c_hatch_given, c_none, c_config,
                   c_raised>>

\* ==================================================================
\* Specifications
\* ==================================================================

NextMatch ==
    \/ CallMatchesPattern /\ UNCHANGED <<expVars, mainVars, checkVars, configVars>>
    \/ CallTranslateExtension /\ UNCHANGED <<expVars, mainVars, checkVars, configVars>>
    \/ CallTranslateExtensionAgain /\ UNCHANGED <<expVars, mainVars, checkVars, configVars>>
    \/ CallMatchesHatchPattern /\ UNCHANGED <<expVars, mainVars, checkVars, configVars>>

InitOfSpecMatch == InitMatch /\ ExpIdle /\ MainIdle /\ CheckIdle /\ ConfigIdle

SpecMatch == InitOfSpecMatch /\ [][NextMatch]_vars

NextExpected ==
    \/ ExpectedStep1 /\ UNCHANGED <<matchVars, mainVars, checkVars, configVars>>
    \/ ExpectedStep2 /\ UNCHANGED <<matchVars, mainVars, checkVars, configVars>>
    \/ ExpectedStep3 /\ UNCHANGED <<matchVars, mainVars, checkVars, configVars>>

InitOfSpecExpected == InitExpected /\ MatchIdle /\ MainIdle /\ CheckIdle /\ ConfigIdle

SpecExpected == InitOfSpecExpected /\ [][NextExpected]_vars

\* a run of the command line
Next ==
    \/ ParseArgs /\ UNCHANGED <<matchVars, expVars, checkVars, configVars>>
    \/ LoadConfig /\ UNCHANGED <<matchVars, expVars, checkVars, configVars>>
    \/ Locate /\ UNCHANGED <<matchVars, expVars, checkVars, configVars>>
    \/ CreateTmp /\ UNCHANGED <<matchVars, expVars, checkVars, configVars>>
    \/ BuildCombined /\ UNCHANGED <<matchVars, expVars, checkVars, configVars>>
    \/ BuildSdist /\ UNCHANGED <<matchVars, expVars, checkVars, configVars>>
    \/ BuildWheel /\ UNCHANGED <<matchVars, expVars, checkVars, configVars>>
    \/ BuildEnd /\ UNCHANGED <<matchVars, expVars, checkVars, configVars>>
    \/ AfterBuild /\ UNCHANGED <<matchVars, expVars, checkVars, configVars>>
    \/ BuildExcept /\ UNCHANGED <<matchVars, expVars, checkVars, configVars>>
    \/ Presence /\ UNCHANGED <<matchVars, expVars, checkVars, configVars>>
    \/ SdistList /\ UNCHANGED <<matchVars, expVars, checkVars, configVars>>
    \/ SdistVcs /\ UNCHANGED <<matchVars, expVars, checkVars, configVars>>
    \/ SdistPresent /\ UNCHANGED <<matchVars, expVars, checkVars, configVars>>
    \/ SdistAbsent /\ UNCHANGED <<matchVars, expVars, checkVars, configVars>>
    \/ SdistExt /\ UNCHANGED <<matchVars, expVars, checkVars, configVars>>
    \/ WheelList /\ UNCHANGED <<matchVars, expVars, checkVars, configVars>>
    \/ WheelPresent /\ UNCHANGED <<matchVars, expVars, checkVars, configVars>>
    \/ WheelAbsent /\ UNCHANGED <<matchVars, expVars, checkVars, configVars>>
    \/ WheelExt /\ UNCHANGED <<matchVars, expVars, checkVars, configVars>>
    \/ Finally /\ UNCHANGED <<matchVars, expVars, checkVars, configVars>>
    \/ Report /\ UNCHANGED <<matchVars, expVars, checkVars, configVars>>
    \/ MainPrint /\ UNCHANGED <<matchVars, expVars, checkVars, configVars>>
    \/ MainCatch /\ UNCHANGED <<matchVars, expVars, checkVars, configVars>>

Init == MainInit /\ MatchIdle /\ ExpIdle /\ CheckIdle /\ ConfigIdle

Spec == Init /\ [][Next]_vars

\* the archive-location phase alone, up to the first command of the build
NextLocate ==
    \/ Locate /\ UNCHANGED <<matchVars, expVars, checkVars, configVars>>
    \/ CreateTmp /\ UNCHANGED <<matchVars, expVars, checkVars, configVars>>
    \/ BuildCombined /\ UNCHANGED <<matchVars, expVars, checkVars, configVars>>

InitOfSpecLocate == InitLocate /\ MatchIdle /\ ExpIdle /\ CheckIdle /\ ConfigIdle

SpecLocate == InitOfSpecLocate /\ [][NextLocate]_vars

\* a call of one checking helper
NextCheck ==
    \/ CallCheckPresent /\ UNCHANGED <<matchVars, expVars, mainVars, configVars>>
    \/ CallCheckAbsent /\ UNCHANGED <<matchVars, expVars, mainVars, configVars>>
    \/ CallCheckWrongPlatformExtensions /\ UNCHANGED <<matchVars, expVars, mainVars, configVars>>
    \/ CallCheckSdistVsVcs /\ UNCHANGED <<matchVars, expVars, mainVars, configVars>>
    \/ CallListSdistFiles /\ UNCHANGED <<matchVars, expVars, mainVars, configVars>>
    \/ CallListWheelFiles /\ UNCHANGED <<matchVars, expVars, mainVars, configVars>>
    \/ CallFindDistFiles /\ UNCHANGED <<matchVars, expVars, mainVars, configVars>>

InitOfSpecCheck == InitCheck /\ MatchIdle /\ ExpIdle /\ MainIdle /\ ConfigIdle

NextConfig ==
    \/ CallLoadConfig /\ UNCHANGED <<matchVars, expVars, mainVars, checkVars>>
    \/ CallCopierDefaults /\ UNCHANGED <<matchVars, expVars, mainVars, checkVars>>
    \/ CallFilterExtrasByHatch /\ UNCHANGED <<matchVars, expVars, mainVars, checkVars>>

InitOfSpecConfig == InitConfig /\ MatchIdle /\ ExpIdle /\ MainIdle /\ CheckIdle

SpecConfig == InitOfSpecConfig /\ [][NextConfig]_vars

SpecCheck == InitOfSpecCheck /\ [][NextCheck]_vars

\* ==================================================================
\* Claims
\* ==================================================================

\* the last element of a non-empty list
Last(s) == s[Len(s)]

\* the message lines of one kind, in order
MessagesOf(tag) == SelectSeq(messages, LAMBDA m : m[1] = tag)

\* C1: check_dist returns success if and only if its error list is empty when it
\* reaches its end; when it returns failure the messages end with a count equal
\* to the number of errors followed by one ERROR line per error, in order, and
\* those are the only count and ERROR lines; and from the end of the checks on
\* the error list does not change
C1_Outcome ==
    /\ [](pc = "returned" =>
            /\ success <=> (errors = <<>>)
            /\ ~success =>
                  /\ SubSeq(messages, Len(messages) - Len(errors), Len(messages))
                        = <<Msg("count", Len(errors))>>
                          \o [i \in 1..Len(errors) |-> Msg("ERROR", errors[i])]
                  /\ Len(MessagesOf("ERROR")) = Len(errors)
                  /\ Len(MessagesOf("count")) = 1
                  /\ MessagesOf("passed") = <<>>
            /\ success =>
                  /\ Last(messages) = Msg("passed", <<>>)
                  /\ MessagesOf("ERROR") = <<>>
                  /\ MessagesOf("count") = <<>>)
    /\ [][(pc \in {"finally", "report", "returned"}) => (errors' = errors)]_vars

\* C1 witness: check_dist has returned failure with several errors
C1_Witness == pc = "returned" /\ ~success /\ Len(errors) >= 2

\* the errors of one check, computed from the listing it is given
ErrorsOfCheck(check) ==
    CASE check = <<"sdist", "vcs">> ->
            check_sdist_vs_vcs(sys_platform, sdist_files, tracked, hatch, config.sdist.absent)
      [] check = <<"sdist", "present">> ->
            check_present(sys_platform, sdist_files, config.sdist.present, "sdist")
      [] check = <<"sdist", "absent">> ->
            check_absent(sys_platform, sdist_files, config.sdist.absent, "sdist",
                         config.sdist.present)
      [] check = <<"sdist", "wrong_ext">> ->
            check_wrong_platform_extensions(sys_platform, sdist_files, "sdist")
      [] check = <<"wheel", "present">> ->
            check_present(sys_platform, wheel_files, config.wheel.present, "wheel")
      [] check = <<"wheel", "absent">> ->
            check_absent(sys_platform, wheel_files, config.wheel.absent, "wheel",
                         config.wheel.present)
      [] check = <<"wheel", "wrong_ext">> ->
            check_wrong_platform_extensions(sys_platform, wheel_files, "wheel")

\* the checks due when check_dist returns, for a given order of the sdist checks:
\* those of each kind that was located, the sdist's before the wheel's, the
\* comparison with the VCS only if the VCS could be queried
ChecksDue(sdist_order) ==
    (IF sdist_path # None
     THEN SelectSeq(sdist_order, LAMBDA c : c # <<"sdist", "vcs">> \/ vcs_status = "listed")
     ELSE <<>>)
    \o (IF wheel_path # None
        THEN << <<"wheel", "present">>, <<"wheel", "absent">>, <<"wheel", "wrong_ext">> >>
        ELSE <<>>)

\* the errors that are not the result of a check: an archive kind was not found
IsPresenceError(e) == e.kind \in {"no_dists", "no_sdist", "no_wheel"}

\* when check_dist returns, every check due has run, in the given order, and the
\* errors after the presence errors are the errors of those checks, in that order
ChecksRanInOrder(sdist_order) ==
    pc = "returned" =>
        /\ ran = ChecksDue(sdist_order)
        /\ SelectSeq(errors, LAMBDA e : ~IsPresenceError(e))
              = Flatten([i \in 1..Len(ChecksDue(sdist_order)) |->
                            ErrorsOfCheck(ChecksDue(sdist_order)[i])])

\* C2 as stated: for each archive kind that was located every check of that kind
\* runs and appends its errors in the order present, absent, wrong-platform
\* extension and, for the sdist only, the comparison with the VCS last; the sdist
\* checks precede the wheel checks; no check's errors stop a later check
C2_AsStated ==
    ChecksRanInOrder(<< <<"sdist", "present">>, <<"sdist", "absent">>,
                        <<"sdist", "wrong_ext">>, <<"sdist", "vcs">> >>)

\* C2 amended: as stated, except that for the sdist the comparison with the VCS
\* runs first: VCS, present, absent, wrong-platform extension
C2_CodeOrder ==
    ChecksRanInOrder(<< <<"sdist", "vcs">>, <<"sdist", "present">>,
                        <<"sdist", "absent">>, <<"sdist", "wrong_ext">> >>)

\* C2 witness: check_dist has returned after both kinds were located, and the
\* comparison with the VCS, the sdist presence check and a wheel check each
\* produced an error
C2_Witness ==
    /\ pc = "returned"
    /\ sdist_path # None /\ wheel_path # None
    /\ vcs_status = "listed"
    /\ ErrorsOfCheck(<<"sdist", "vcs">>) # <<>>
    /\ ErrorsOfCheck(<<"sdist", "present">>) # <<>>
    /\ ErrorsOfCheck(<<"wheel", "absent">>) # <<>>

\* the build targets a command names
Targets(cmd) == ToSet(cmd) \cap {"--sdist", "--wheel"}

\* build_dists has returned to check_dist
BuildReturned == pc = "after_build"

\* build_dists has raised CheckDistError
BuildRaised == pc = "build_except" /\ raised = "CheckDistError"

\* C3: build_dists first runs one combined sdist+wheel build; if that succeeds no
\* other build is run and no warning is returned; if it fails the sdist build
\* and then the wheel build are run, the wheel build whatever the sdist build
\* did; build_dists raises CheckDistError if and only if all three fail, and
\* otherwise returns one warning for each per-kind build that failed
C3_BuildFallback ==
    /\ Len(runs) <= 3
    /\ Len(runs) >= 1 => Targets(runs[1].cmd) = {"--sdist", "--wheel"}
    /\ Len(runs) >= 2 => runs[1].outcome = "failed" /\ Targets(runs[2].cmd) = {"--sdist"}
    /\ Len(runs) >= 3 => runs[2].outcome \in {"ok", "failed"} /\ Targets(runs[3].cmd) = {"--wheel"}
    /\ (BuildReturned \/ BuildRaised) =>
          /\ runs # <<>>
          /\ runs[1].outcome = "ok" =>
                Len(runs) = 1 /\ BuildReturned /\ warnings = <<>>
          /\ runs[1].outcome # "ok" =>
                /\ Len(runs) = 3
                /\ BuildRaised <=> \A i \in 1..3 : runs[i].outcome = "failed"
                /\ BuildReturned =>
                      warnings = (IF runs[2].outcome = "failed" THEN <<"sdist">> ELSE <<>>)
                                 \o (IF runs[3].outcome = "failed" THEN <<"wheel">> ELSE <<>>)

\* C3 witness: build_dists has returned after the combined build and the sdist
\* build failed and the wheel build succeeded
C3_Witness ==
    /\ BuildReturned
    /\ Len(runs) = 3
    /\ runs[2].outcome = "failed"
    /\ runs[3].outcome = "ok"
    /\ warnings = <<"sdist">>

\* control has left check_dist, by return or by an exception
LeftCheckDist == pc \in {"returned", "raised", "exited", "unhandled"}

\* C4 as stated: whenever the temporary directory was created it has been removed,
\* by exactly one release, when control leaves check_dist, whether by return or
\* by an exception of the build or of the inspection of an archive
C4_AsStated ==
    /\ releases <= 1
    /\ (LeftCheckDist /\ tmpdir # "none") => (tmpdir = "removed" /\ releases = 1)

\* C4, what the code guarantees: the temporary directory is never released twice,
\* and it has been removed when control leaves check_dist unless the build was
\* interrupted from the keyboard
C4_ReleasedUnlessBuildInterrupted ==
    /\ releases <= 1
    /\ (LeftCheckDist /\ tmpdir # "none") =>
          \/ tmpdir = "removed" /\ releases = 1
          \/ /\ raised = "KeyboardInterrupt"
             /\ runs # <<>> /\ Last(runs).outcome = "interrupted"

\* C4 witness: a KeyboardInterrupt during the build has left check_dist and the
\* temporary directory still exists
C4_Witness ==
    /\ pc = "raised"
    /\ raised = "KeyboardInterrupt"
    /\ tmpdir = "exists"
    /\ releases = 0

\* C5: when the VCS query fails (git missing, or git ls-files exiting non-zero)
\* check_dist appends one warning and no error for it, skips only the comparison
\* with the VCS, still runs the present, absent and wrong-platform-extension
\* checks on the sdist and every wheel check, and what it returns is decided by
\* the errors it holds apart from the VCS: success exactly when the presence
\* errors and the errors of those other checks are all empty
C5_VcsFailureIsWarning ==
    (pc = "returned" /\ vcs_status \in {"git_not_found", "git_failed"}) =>
        LET others == << <<"sdist", "present">>, <<"sdist", "absent">>,
                         <<"sdist", "wrong_ext">> >>
                      \o (IF wheel_path # None
                          THEN << <<"wheel", "present">>, <<"wheel", "absent">>,
                                  <<"wheel", "wrong_ext">> >>
                          ELSE <<>>)
            of_others == Flatten([i \in 1..Len(others) |-> ErrorsOfCheck(others[i])])
        IN  /\ MessagesOf("vcs_warning") = <<Msg("vcs_warning", vcs_status)>>
            /\ \A i \in 1..Len(errors) :
                  errors[i].kind \notin {"extra", "missing", "git_not_found", "git_failed"}
            /\ ran = others
            /\ Len(errors) = Len(SelectSeq(errors, IsPresenceError)) + Len(of_others)
            /\ SubSeq(errors, Len(errors) - Len(of_others) + 1, Len(errors)) = of_others
            /\ success <=> (SelectSeq(errors, IsPresenceError) = <<>> /\ of_others = <<>>)

\* C5 witness: check_dist has returned after the VCS query failed, with a wheel
\* located and an error from a wheel check
C5_Witness ==
    /\ pc = "returned"
    /\ vcs_status = "git_failed"
    /\ wheel_path # None
    /\ ErrorsOfCheck(<<"wheel", "absent">>) # <<>>
    /\ ~success

\* a directory exists and lists an sdist or a wheel
HasArchive(d) ==
    /\ fs[d].exists
    /\ \E i \in 1..Len(fs[d].names) :
          \/ EndsWith(fs[d].names[i], TAR_GZ)
          \/ EndsWith(fs[d].names[i], ZIP)
          \/ EndsWith(fs[d].names[i], WHL)

\* the build collaborator has been invoked
BuildInvoked == pc \in {"create_tmp", "build_combined", "build_sdist", "build_wheel",
                        "build_end", "after_build", "build_except"}

\* a path is None or lies in directory d
NoneOrIn(path, d) == path = None \/ StartsWith(path, d \o <<"/">>)

\* C6: once check_dist has chosen where the archives come from, the build is
\* invoked if and only if the caller gave no pre-built directory and (rebuild is
\* set or neither dist/ nor wheelhouse/ holds an sdist or a wheel); a directory
\* the caller gave is used as it is, rebuild or not; auto-detection uses dist/
\* if it holds an archive, else wheelhouse/; with rebuild set and no directory
\* given, nothing of dist/ or wheelhouse/ is used
C6_Locate ==
    pc # "locate" =>
        /\ BuildInvoked <=>
              /\ a_pre_built = None
              /\ a_rebuild \/ (~HasArchive(DIST) /\ ~HasArchive(WHEELHOUSE))
        /\ ~BuildInvoked => pc = "presence"
        /\ a_pre_built # None =>
              /\ pre_built = a_pre_built
              /\ NoneOrIn(sdist_path, a_pre_built) /\ NoneOrIn(wheel_path, a_pre_built)
              /\ (sdist_path # None \/ wheel_path # None) <=> HasArchive(a_pre_built)
        /\ (a_pre_built = None /\ ~a_rebuild /\ HasArchive(DIST)) =>
              /\ pre_built = DIST
              /\ NoneOrIn(sdist_path, DIST) /\ NoneOrIn(wheel_path, DIST)
              /\ sdist_path # None \/ wheel_path # None
        /\ (a_pre_built = None /\ ~a_rebuild /\ ~HasArchive(DIST) /\ HasArchive(WHEELHOUSE)) =>
              /\ pre_built = WHEELHOUSE
              /\ NoneOrIn(sdist_path, WHEELHOUSE) /\ NoneOrIn(wheel_path, WHEELHOUSE)
              /\ sdist_path # None \/ wheel_path # None
        /\ BuildInvoked =>
              /\ pre_built = None
              /\ NoneOrIn(sdist_path, TMP_DIR) /\ NoneOrIn(wheel_path, TMP_DIR)

\* C6 witness: the build has been run with rebuild set and no directory given,
\* although dist/ and wheelhouse/ both hold archives
C6_Witness ==
    /\ a_pre_built = None /\ a_rebuild
    /\ HasArchive(DIST) /\ HasArchive(WHEELHOUSE)
    /\ runs # <<>>

\* check_dist was called and returned its result
CheckDistReturned == messages # <<>> /\ Last(messages)[1] \in {"passed", "ERROR"}

\* main has left through sys.exit
Exited(code) == pc = "exited" /\ exit_code = <<code>>

\* C7 as stated: main exits with code 0 exactly when check_dist returns success,
\* with code 1 exactly when check_dist returns failure, and with code 2 exactly
\* when check_dist raises CheckDistError; in the last case nothing is printed
\* on standard output, only the error on standard error
C7_AsStated ==
    pc \in {"exited", "unhandled"} =>
        /\ Exited(0) <=> (CheckDistReturned /\ success)
        /\ Exited(1) <=> (CheckDistReturned /\ ~success)
        /\ Exited(2) <=> (raised = "CheckDistError")
        /\ Exited(2) => (stdout = <<>> /\ stderr = <<Msg("Error", <<>>)>>)

\* C7 amended: when the arguments parse, main calls check_dist and exits with
\* code 0 if it returns success, 1 if it returns failure (every message printed
\* on standard output in both cases) and 2 if it raises CheckDistError (nothing
\* on standard output, the error on standard error); main exits with code 1 only
\* in that way, with code 0 otherwise only after printing the help, and with
\* code 2 otherwise only after a usage error, check_dist not having been called;
\* any other exception leaves main without an exit code
C7_ExitCodes ==
    pc \in {"exited", "unhandled"} =>
        LET help == stdout = <<Msg("help", <<>>)>> /\ messages = <<>>
            usage == stderr = <<Msg("usage", <<>>)>> /\ messages = <<>> /\ stdout = <<>>
        IN  /\ (CheckDistReturned /\ success) => (Exited(0) /\ stdout = messages)
            /\ (CheckDistReturned /\ ~success) => (Exited(1) /\ stdout = messages)
            /\ raised = "CheckDistError" =>
                  (Exited(2) /\ stdout = <<>> /\ stderr = <<Msg("Error", <<>>)>>)
            /\ Exited(0) => ((CheckDistReturned /\ success) \/ help)
            /\ Exited(1) => (CheckDistReturned /\ ~success)
            /\ Exited(2) => (raised = "CheckDistError" \/ usage)
            /\ raised \in {"Exception", "KeyboardInterrupt"} <=> pc = "unhandled"
            /\ pc = "unhandled" => exit_code = None

\* C7 witness: main has exited with code 2 after check_dist had collected
\* messages and then raised CheckDistError
C7_Witness ==
    /\ Exited(2)
    /\ raised = "CheckDistError"
    /\ messages # <<>>
    /\ stdout = <<>>

\* the path components of a string: the runs between separators
RECURSIVE Components(_)
Components(s) ==
    LET seps == {i \in 1..Len(s) : s[i] = "/"}
    IN  IF seps = {} THEN <<s>>
        ELSE <<SubSeq(s, 1, SeqMin(seps) - 1)>> \o Components(SubSeq(s, SeqMin(seps) + 1, Len(s)))

\* f is d itself or lies under directory d, by path components
AtOrUnder(f, d) ==
    LET fc == Components(f)
        dc == Components(d)
    IN  Len(dc) <= Len(fc) /\ SubSeq(fc, 1, Len(dc)) = dc

\* str.lower
Lower(s) == [i \in 1..Len(s) |-> LowerChar(s[i])]

SelectedBy(vcs_files, entries) ==
    {f \in ToSet(vcs_files) :
        \E k \in 1..Len(entries) : f = entries[k] \/ AtOrUnder(f, RStripSlash(entries[k]))}

EffectiveDestinations(h) ==
    {StripSlash(d) : d \in ToSet(IF h.force_include # <<>> THEN h.force_include
                                 ELSE h.global_force_include)}

\* C10: every file of the returned set that is not at or under a force-include
\* destination matches none of the exclude entries, whatever the base selection
C10_ExcludeSubtracts ==
    e_pc = "done" =>
        \A f \in e_expected :
            (~\E d \in EffectiveDestinations(e_hatch) : AtOrUnder(f, d)) =>
                ~\E k \in 1..Len(e_hatch.exclude) :
                    _matches_hatch_pattern(e_plat, f, e_hatch.exclude[k])

\* C10 witness: only-include ["pkg", "rust"], exclude ["target"], and the
\* tracked file rust/target/debug/foo is not expected
C10_Witness ==
    /\ e_pc = "done"
    /\ e_hatch.has_only_include /\ e_hatch.only_include = <<PKG, RUST>>
    /\ e_hatch.exclude = <<TARGET>>
    /\ F_RUST_TARGET_FOO \in ToSet(e_vcs)
    /\ F_RUST_TARGET_FOO \notin e_expected
    /\ e_expected # {}

\* C11: for every force-include destination d in effect (the sdist target's
\* mapping when it is non-empty, otherwise the top-level one), separators
\* stripped, every VCS file equal to d or starting with d + "/" is in the set
\* _sdist_expected_files returns, whatever only-include, packages, include and
\* exclude say
C11_ForceIncludeKept ==
    e_pc = "done" =>
        \A d \in EffectiveDestinations(e_hatch) :
            \A f \in ToSet(e_vcs) :
                (f = d \/ StartsWith(f, d \o <<"/">>)) => f \in e_expected

\* C11 witness: rust/target/debug/foo is tracked, lies outside only-include
\* ["pkg/"], matches the exclude entry "target", and is expected because the
\* sdist target force-includes "/rust/target/"
C11_Witness ==
    /\ e_pc = "done"
    /\ e_hatch.has_only_include /\ e_hatch.only_include = <<PKG_SLASH>>
    /\ e_hatch.exclude = <<TARGET>>
    /\ e_hatch.force_include = <<RUST_TARGET_ANCHORED>>
    /\ e_hatch.global_force_include = <<PKG>>
    /\ F_RUST_TARGET_FOO \in ToSet(e_vcs)
    /\ F_RUST_TARGET_FOO \in e_expected
    /\ F_RUST_TARGET_FOO \notin expected_excluded(e_plat, expected_base(e_plat, e_vcs, e_hatch), e_hatch)

\* the positions 1..n that satisfy a test, in ascending order
PositionsWhere(n, Test(_)) == SelectSeq([i \in 1..n |-> i], Test)

\* C12: check_present returns exactly one error for each present pattern that no
\* archive member matches, in pattern order, and none for a pattern some member
\* matches; the error names the pattern, and names the translated form exactly
\* when extension translation changed the pattern; no patterns, no errors
C12_CheckPresent ==
    k_pc = "check_present" =>
        LET Unmatched(i) ==
                \A k \in 1..Len(k_files) : ~matches_pattern(k_plat, k_files[k], k_patterns[i])
            at == PositionsWhere(Len(k_patterns), Unmatched)
        IN  /\ Len(k_errors) = Len(at)
            /\ \A j \in 1..Len(at) :
                  LET pattern == k_patterns[at[j]]
                      translated == translate_extension(k_plat, pattern)
                  IN  /\ k_errors[j].kind = "required"
                      /\ k_errors[j].pattern = pattern
                      /\ k_errors[j].note # <<>> <=> translated # pattern
                      /\ k_errors[j].note # <<>> => k_errors[j].note = <<translated>>
            /\ k_patterns = <<>> => k_errors = <<>>

\* C12 witness: of two patterns one is matched and the other, whose extension
\* was translated, is not: one error, naming the translated form
C12_Witness ==
    /\ k_pc = "check_present"
    /\ Len(k_patterns) = 2
    /\ k_files # <<>>
    /\ Len(k_errors) = 1
    /\ k_errors[1].pattern = k_patterns[2]
    /\ k_errors[1].note # <<>>

\* C13: check_absent produces an error for an absent pattern if and only if some
\* archive member matches that pattern and matches none of the present patterns;
\* the error lists exactly those members, every one of them; a member that
\* matches an absent pattern and also a present pattern is never reported
C13_CheckAbsent ==
    k_pc = "check_absent" =>
        LET Reported(i) ==
                {k \in 1..Len(k_files) :
                    /\ matches_pattern(k_plat, k_files[k], k_patterns[i])
                    /\ \A q \in 1..Len(k_present_patterns) :
                          ~matches_pattern(k_plat, k_files[k], k_present_patterns[q])}
            Offends(i) == Reported(i) # {}
            at == PositionsWhere(Len(k_patterns), Offends)
        IN  /\ Len(k_errors) = Len(at)
            /\ \A j \in 1..Len(at) :
                  /\ k_errors[j].kind = "unwanted"
                  /\ k_errors[j].pattern = k_patterns[at[j]]
                  /\ ToSet(k_errors[j].files) = {k_files[k] : k \in Reported(at[j])}
                  /\ Len(k_errors[j].files) = Cardinality(Reported(at[j]))

\* C13 witness: a pattern matches two members, a present pattern shields one of
\* them, and the error lists the other alone
C13_Witness ==
    /\ k_pc = "check_absent"
    /\ k_present_patterns # <<>>
    /\ k_patterns # <<>>
    /\ Len(k_files) = 2
    /\ \A k \in 1..2 : matches_pattern(k_plat, k_files[k], k_patterns[1])
    /\ Len(k_errors) >= 1
    /\ k_errors[1].pattern = k_patterns[1]
    /\ Len(k_errors[1].files) = 1

\* the (suffix, translated suffix) pairs of the family's map that a member ends with
ForeignPairs(plat, f) ==
    {pair \in ToSet(_PLATFORM_EXTENSION_MAP[plat]) : EndsWith(f, pair[1])}

\* one error for every member that ends in a key of the family's map, in listing
\* order, none for any other member, each with the given reported suffix
OneErrorPerForeignMember(Reported(_, _)) ==
    k_pc = "check_wrong_platform_extensions" =>
        LET Foreign(k) == ForeignPairs(k_plat, k_files[k]) # {}
            at == PositionsWhere(Len(k_files), Foreign)
        IN  /\ Len(k_errors) = Len(at)
            /\ \A j \in 1..Len(at) :
                  /\ k_errors[j].kind = "wrong_ext"
                  /\ k_errors[j].files = <<k_files[at[j]]>>
                  /\ \E pair \in ForeignPairs(k_plat, k_files[at[j]]) :
                        /\ k_errors[j].pattern = pair[1]
                        /\ k_errors[j].note = <<Reported(k_files[at[j]], pair)>>
            /\ k_plat \in {"linux", "darwin"} =>
                  \A j \in 1..Len(k_errors) : ~EndsWith(k_errors[j].files[1], ExtSo)

\* the suffix the family's map gives
MapSuffix(f, pair) == pair[2]

\* the suffix check_wrong_platform_extensions reports: empty when the member's
\* last component is nothing but dots and the foreign suffix
SplitSuffix(f, pair) ==
    LET stem == SubSeq(basename(f), 1, Len(basename(f)) - Len(pair[1]))
    IN  IF \A i \in 1..Len(stem) : stem[i] = "." THEN <<>> ELSE pair[2]

\* C14 as stated: for each platform family check_wrong_platform_extensions
\* returns exactly one error for every archive member that ends in a suffix that
\* is a key of that family's translation map and none for any other member (none
\* for ".so" members on linux or darwin), and each error reports the suffix that
\* translation gives for that member
C14_AsStated == OneErrorPerForeignMember(MapSuffix)

\* C14, what the code does: as stated, except that for a member whose last
\* component is only the foreign suffix, possibly after more dots, the suffix
\* reported as expected is empty
C14_ExpectedSuffixOfDotfile == OneErrorPerForeignMember(SplitSuffix)

\* C14 witness: on linux the member ".pyd" is reported with an empty expected
\* suffix
C14_Witness ==
    /\ k_pc = "check_wrong_platform_extensions"
    /\ k_plat = "linux"
    /\ k_files = <<F_DOT_PYD>>
    /\ Len(k_errors) = 1
    /\ k_errors[1].note = << <<>> >>


\* the positions of the errors of one kind in the list returned
ErrorsOfKind(kind) ==
    LET OfKind(i) == k_errors[i].kind = kind
    IN  PositionsWhere(Len(k_errors), OfKind)

\* no error of the kind when the set is empty, otherwise one error of the kind
\* naming exactly the elements of the set
OneErrorNaming(kind, S) ==
    LET at == ErrorsOfKind(kind)
    IN  IF S = {} THEN at = <<>>
        ELSE /\ Len(at) = 1
             /\ ToSet(k_errors[at[1]].files) = S
             /\ Len(k_errors[at[1]].files) = Cardinality(S)

\* generated metadata: the PKG-INFO marker, or a path with a component that ends
\* in ".egg-info"
GeneratedMetadata(f) ==
    \/ f = PKG_INFO
    \/ \E i \in 1..Len(Components(f)) : EndsWith(Components(f)[i], EGG_INFO)

\* a path that some common or configured sdist absent pattern matches
ExpectedAbsent(f) ==
    \E pat \in ToSet(_COMMON_SDIST_ABSENT) \cup ToSet(k_patterns) :
        matches_pattern(k_plat, f, pat)

\* the expected files that are not in the given set of archive members, dotfile
\* paths and expected-absent paths left out
MissingFrom(members) ==
    {f \in _sdist_expected_files(k_plat, k_vcs, k_hatch) :
        /\ f \notin members
        /\ f[1] # "."
        /\ ~ExpectedAbsent(f)}

\* the example of C15: the sdist holds pkg/__init__.py, the source tree also
\* tracks pyproject.toml, no build table, no configured absent pattern
MissingExample ==
    /\ k_pc = "check_sdist_vs_vcs"
    /\ k_files = <<F_PKG_INIT>>
    /\ k_vcs = <<F_PKG_INIT, PYPROJECT>>
    /\ k_hatch = NoHatchConfig
    /\ k_patterns = <<>>

\* C15 as stated: check_sdist_vs_vcs returns a "missing" error exactly when
\* some expected file is absent from the archive, is not a dotfile path and
\* matches no common or configured sdist absent pattern, and the error names
\* exactly those files
C15_AsStated ==
    k_pc = "check_sdist_vs_vcs" => OneErrorNaming("missing", MissingFrom(ToSet(k_files)))

\* C15, what the code does: the expected files are looked up in the archive
\* listing with the generated metadata removed, so a tracked PKG-INFO or
\* .egg-info file is named as missing even when the archive holds it; in the
\* example of the claim the call returns one error, naming pyproject.toml
C15_MissingAgainstCleanedListing ==
    /\ k_pc = "check_sdist_vs_vcs" =>
          OneErrorNaming("missing",
                         MissingFrom({f \in ToSet(k_files) : ~GeneratedMetadata(f)}))
    /\ MissingExample =>
          /\ Len(k_errors) = 1
          /\ k_errors[1].kind = "missing"
          /\ k_errors[1].files = <<PYPROJECT>>

\* C15 witness: PKG-INFO is tracked and is in the archive, and the call names
\* it as missing
C15_Witness ==
    /\ k_pc = "check_sdist_vs_vcs"
    /\ k_files = <<PKG_INFO>>
    /\ k_vcs = <<PKG_INFO>>
    /\ k_hatch = NoHatchConfig
    /\ Len(k_errors) = 1
    /\ k_errors[1].kind = "missing"
    /\ k_errors[1].files = <<PKG_INFO>>

\* an archive member that some declared artifacts pattern matches
DeclaredArtifact(f) ==
    \E art \in ToSet(k_hatch.artifacts) : matches_pattern(k_plat, f, art)

\* the archive members that are stray
ExtraMembers ==
    {f \in ToSet(k_files) :
        /\ f \notin ToSet(k_vcs)
        /\ ~GeneratedMetadata(f)
        /\ ~DeclaredArtifact(f)}

\* C16: check_sdist_vs_vcs returns an "extra" error exactly when some archive
\* member is not tracked, is not generated metadata and matches no declared
\* artifacts pattern, and the error names exactly those members; generated
\* metadata is never named as extra, and the sdist {PKG-INFO, pkg/__init__.py}
\* against the tracked files {pkg/__init__.py} gives no error
C16_Extra ==
    k_pc = "check_sdist_vs_vcs" =>
        /\ OneErrorNaming("extra", ExtraMembers)
        /\ \A i \in 1..Len(k_errors) :
              k_errors[i].kind = "extra" =>
                  \A j \in 1..Len(k_errors[i].files) :
                      ~GeneratedMetadata(k_errors[i].files[j])
        /\ (k_files = <<PKG_INFO, F_PKG_INIT>> /\ k_vcs = <<F_PKG_INIT>>) => k_errors = <<>>

\* C16 witness: the archive holds the untracked PKG-INFO beside a tracked file,
\* and the call returns no error
C16_Witness ==
    /\ k_pc = "check_sdist_vs_vcs"
    /\ k_files = <<PKG_INFO, F_PKG_INIT>>
    /\ k_vcs = <<F_PKG_INIT>>
    /\ k_hatch = NoHatchConfig
    /\ k_errors = <<>>


\* the base lists of the check-dist table followed by the lists of each kind
MergedLists(cd) ==
    [sdist |-> [present |-> cd.present \o cd.sdist.present,
                absent |-> cd.absent \o cd.sdist.absent],
     wheel |-> [present |-> cd.present \o cd.wheel.present,
                absent |-> cd.absent \o cd.wheel.absent]]

\* load_config was called on a pyproject.toml that has a check-dist table
HasCheckSection == c_pc = "load_config" /\ c_pyproject.exists /\ c_pyproject.has_check_dist

\* C17 as stated: when pyproject.toml has a check-dist table, load_config
\* returns for each kind and each list the base entries followed by the entries
\* of that kind, order and duplicates kept, nothing of the other kind, a missing
\* list adding nothing
C17_AsStated ==
    HasCheckSection => c_raised = "none" /\ c_config = MergedLists(c_pyproject.cd)

\* C17, what the code does: the lists are merged as stated when the check-dist
\* table has at least one key; a table with no key is taken for a missing one
C17_MergedWhenTableHasKeys ==
    (HasCheckSection /\ c_pyproject.cd.keys # {}) =>
        c_raised = "none" /\ c_config = MergedLists(c_pyproject.cd)

\* C17 witness: base and kind lists with a repeated entry are merged in order
C17_Witness ==
    /\ HasCheckSection
    /\ c_pyproject.cd.present = <<PKG, PKG>>
    /\ c_pyproject.cd.sdist.present = <<DOCS, PKG>>
    /\ c_pyproject.cd.wheel.present = <<>>
    /\ c_pyproject.cd.wheel.absent = <<PYPROJECT, TESTS>>
    /\ c_config.sdist.present = <<PKG, PKG, DOCS, PKG>>
    /\ c_config.wheel.present = <<PKG, PKG>>
    /\ c_config.wheel.absent = c_pyproject.cd.absent \o <<PYPROJECT, TESTS>>

\* the configuration carries the common wheel-absent patterns of the template
TemplateDefaults ==
    /\ Len(c_config.wheel.absent) >= Len(_COMMON_WHEEL_ABSENT)
    /\ SubSeq(c_config.wheel.absent, 1, Len(_COMMON_WHEEL_ABSENT)) = _COMMON_WHEEL_ABSENT

\* a pyproject.toml with a keyless check-dist table and an answers file from
\* which defaults can be derived
KeylessSectionWithAnswers ==
    /\ HasCheckSection
    /\ c_pyproject.cd.keys = {}
    /\ c_answers.kind = "mapping"
    /\ c_answers.add_extension \in ToSet(ExtensionCategories)
    /\ c_answers.project_name # <<>>


\* load_config was called and found no check-dist table: no pyproject.toml, or
\* one whose "tool" table has no "check-dist" key
SectionAbsent ==
    c_pc = "load_config" /\ (~c_pyproject.exists \/ ~c_pyproject.has_check_dist)

\* no defaults can be derived: there is no answers file, or it has no
\* add_extension key or no project_name key, or the category is not in the table
SynthesisImpossible ==
    \/ c_answers.kind = "missing"
    \/ ~c_answers.has_add_extension
    \/ ~c_answers.has_project_name
    \/ c_answers.add_extension \notin ToSet(ExtensionCategories)

\* the answers file holds a document that is not a mapping
AnswersNotMapping == c_answers.kind = "not_mapping"

\* load_config consults the answers file: pyproject.toml is missing and
\* source_dir is given, or the check-dist table is missing or has no key
AnswersConsulted ==
    /\ c_pc = "load_config"
    /\ \/ ~c_pyproject.exists /\ c_source_dir
       \/ c_pyproject.exists /\ (~c_pyproject.has_check_dist \/ c_pyproject.cd.keys = {})

\* every list of the configuration is empty, or none is
EmptyOrFull ==
    \/ c_config = EmptyConfig
    \/ /\ c_config.sdist.present # <<>>
       /\ c_config.sdist.absent # <<>>
       /\ c_config.wheel.present # <<>>
       /\ c_config.wheel.absent # <<>>

\* C18 as stated: load_config takes the defaults of the template only when the
\* check-dist table is entirely absent; when it is absent and there is no
\* answers file, or the file lacks the category or the project name, or the
\* category is not in the table, it returns the all-empty configuration without
\* raising, and it never returns a partly filled configuration
C18_AsStated ==
    /\ (c_pc = "load_config" /\ c_raised = "none" /\ TemplateDefaults) => SectionAbsent
    /\ (SectionAbsent /\ SynthesisImpossible) => (c_raised = "none" /\ c_config = EmptyConfig)
    /\ (SectionAbsent /\ c_raised = "none") => EmptyOrFull

\* C18, what the code does: the defaults are also taken for a check-dist table
\* that has no key; with no derivable defaults the result is all-empty, except
\* that an answers document that is not a mapping raises AttributeError; a
\* configuration returned on this path is all-empty or has all four lists
C18_DefaultsAlsoForKeylessTable ==
    /\ (c_pc = "load_config" /\ c_raised = "none" /\ TemplateDefaults) => AnswersConsulted
    /\ KeylessSectionWithAnswers => TemplateDefaults
    /\ (AnswersConsulted /\ SynthesisImpossible /\ ~AnswersNotMapping) =>
          (c_raised = "none" /\ c_config = EmptyConfig)
    /\ (AnswersConsulted /\ AnswersNotMapping) => c_raised = "AttributeError"
    /\ (c_pc = "load_config" /\ ~AnswersConsulted) => c_raised = "none"
    /\ (AnswersConsulted /\ c_raised = "none") => EmptyOrFull

\* C18 witness: a check-dist table with no key, a usable answers file, and the
\* configuration returned is the template's
C18_Witness ==
    /\ KeylessSectionWithAnswers
    /\ c_answers.add_extension = "rustjswasm"
    /\ c_answers.project_name = NAME_SPACED
    /\ c_raised = "none"
    /\ TemplateDefaults
    /\ c_config.wheel.present = << <<"a", "_", "b">> >>


\* copier_defaults was called with a build table and returned a configuration
DefaultsWithHatch == c_pc = "copier_defaults" /\ c_hatch_given /\ ~c_none

\* the extras of the category of the answers, in the order of the table
CategoryExtras == _EXTENSION_DEFAULTS[c_answers.add_extension].sdist_present_extra

\* the synthesized sdist present list between the module name and the common
\* patterns
KeptExtras ==
    SubSeq(c_config.sdist.present, 2,
           Len(c_config.sdist.present) - Len(_COMMON_SDIST_PRESENT))

\* s is t with some entries left out, the order kept
RECURSIVE IsSubsequence(_, _)
IsSubsequence(s, t) ==
    IF s = <<>> THEN TRUE
    ELSE IF t = <<>> THEN FALSE
    ELSE IF s[1] = t[1] THEN IsSubsequence(Tail(s), Tail(t))
    ELSE IsSubsequence(s, Tail(t))

\* the module name first, the common present patterns last, the extras kept in
\* the order of the table
DefaultsShape ==
    LET present == c_config.sdist.present
        n == Len(present)
    IN  /\ n >= 1 + Len(_COMMON_SDIST_PRESENT)
        /\ present[1] = _module_name_from_project(c_answers.project_name)
        /\ SubSeq(present, n - Len(_COMMON_SDIST_PRESENT) + 1, n) = _COMMON_SDIST_PRESENT
        /\ IsSubsequence(KeptExtras, CategoryExtras)
        /\ c_config.wheel.present = <<present[1]>>

\* the resolver keeps the path: tracked as a file, or as a directory with a file
\* in it, it is among the files expected in the sdist
BackendRetains(hatch_config, p) ==
    \E f \in {p, p \o <<"/", "x">>} : f \in _sdist_expected_files("linux", <<f>>, hatch_config)

\* C19 as stated: when defaults are synthesized with a build table, an extra of
\* the category is in the sdist present list only if the resolver would keep
\* that path (only-include, else packages, else include; exclude subtracts,
\* force-include destinations are added), so no extra that the build table
\* excludes is required; the module name and the common patterns are always
\* kept, and the kept extras are in the order of the table
C19_AsStated ==
    DefaultsWithHatch =>
        /\ DefaultsShape
        /\ \A i \in 1..Len(KeptExtras) : BackendRetains(c_hatch, KeptExtras[i])

\* C19, what the code does: the shape is as stated, and every kept extra is one
\* the resolver keeps when the sdist target has no exclude; exclude patterns are
\* not read, so an excluded extra stays required
C19_ExcludeNotRead ==
    DefaultsWithHatch =>
        /\ DefaultsShape
        /\ c_hatch.exclude = <<>> =>
              \A i \in 1..Len(KeptExtras) : BackendRetains(c_hatch, KeptExtras[i])
        /\ KeptExtras =
              IF c_hatch.has_only_include \/ c_hatch.has_packages \/ c_hatch.has_include
              THEN _filter_extras_by_hatch(CategoryExtras, [c_hatch EXCEPT !.exclude = <<>>])
              ELSE CategoryExtras

\* C19 witness: the sdist target excludes rust, the category is rust, and rust
\* is in the synthesized sdist present list
C19_Witness ==
    /\ DefaultsWithHatch
    /\ c_answers.add_extension = "rust"
    /\ c_hatch.exclude = <<RUST>>
    /\ ~c_hatch.has_only_include /\ ~c_hatch.has_packages /\ ~c_hatch.has_include
    /\ ~BackendRetains(c_hatch, RUST)
    /\ KeptExtras = <<RUST, CARGO_TOML, CARGO_LOCK>>


\* the destinations of a force-include table, as the filter compares them
Destinations(table) == {StripSlash(v) : v \in ToSet(table)}

\* _filter_extras_by_hatch was called with a build table that restricts the
\* sdist: only-include, packages or include is given
FilterRestricts ==
    /\ c_pc = "_filter_extras_by_hatch"
    /\ c_hatch.has_only_include \/ c_hatch.has_packages \/ c_hatch.has_include

\* the paths the restriction lists: only-include, else packages, else include
ListedPaths ==
    IF c_hatch.has_only_include THEN ToSet(c_hatch.only_include)
    ELSE IF c_hatch.has_packages THEN ToSet(c_hatch.packages)
    ELSE ToSet(c_hatch.include)

\* C20 as stated: an extra that equals a force-include destination is kept by
\* _filter_extras_by_hatch whether the destination is in the force-include
\* table of the sdist target or in the global one, also when both tables have
\* entries
C20_AsStated ==
    c_pc = "_filter_extras_by_hatch" =>
        \A p \in ToSet(c_extras) :
            p \in Destinations(c_hatch.force_include)
                      \cup Destinations(c_hatch.global_force_include)
                => p \in ToSet(c_kept)

\* C20 amended: an extra that equals a destination of the sdist target's
\* force-include table is kept; a destination of the global table is kept when
\* the target's table has no entry; when the target's table has entries, an
\* extra that is only a destination of the global table and is not listed by
\* the restriction is dropped
C20_TargetTableOverridesGlobal ==
    c_pc = "_filter_extras_by_hatch" =>
        \A p \in ToSet(c_extras) :
            /\ p \in Destinations(c_hatch.force_include) => p \in ToSet(c_kept)
            /\ (c_hatch.force_include = <<>> /\ p \in Destinations(c_hatch.global_force_include))
                  => p \in ToSet(c_kept)
            /\ ( /\ FilterRestricts
                 /\ c_hatch.force_include # <<>>
                 /\ p \in Destinations(c_hatch.global_force_include)
                 /\ p \notin Destinations(c_hatch.force_include)
                 /\ p \notin ListedPaths )
                  => p \notin ToSet(c_kept)

\* C20 witness: both force-include tables have entries, the sdist is restricted
\* to rust, and of the extras js (destination of the target's table) is kept
\* while Cargo.lock (destination of the global table) is dropped
C20_Witness ==
    /\ FilterRestricts
    /\ c_extras = <<JS, RUST, CARGO_TOML, CARGO_LOCK>>
    /\ c_hatch.only_include = <<RUST>>
    /\ c_hatch.force_include = <<JS_ANCHORED>>
    /\ c_hatch.global_force_include = <<CARGO_LOCK>>
    /\ c_kept = <<JS, RUST>>


\* the suffixes the family's map translates: its keys
ForeignSuffixes(plat) == {pair[1] : pair \in ToSet(_PLATFORM_EXTENSION_MAP[plat])}

\* translate_extension was called and returned
Translated == m_pc \in {"translate_extension", "translate_extension_again"}

\* C21: for each platform family translate_extension replaces only the trailing
\* suffix of its argument by the mapped suffix when the argument ends with a
\* key of the family's map, and returns the argument unchanged otherwise; an
\* argument with a native suffix is unchanged (on linux a name in ".so"), and
\* translating the result again gives the result
C21_TranslateExtension ==
    /\ Translated =>
          /\ \A pair \in ToSet(_PLATFORM_EXTENSION_MAP[m_plat]) :
                EndsWith(m_pattern, pair[1]) =>
                    /\ Len(m_translated) = Len(m_pattern) - Len(pair[1]) + Len(pair[2])
                    /\ SubSeq(m_translated, 1, Len(m_pattern) - Len(pair[1]))
                          = SubSeq(m_pattern, 1, Len(m_pattern) - Len(pair[1]))
                    /\ EndsWith(m_translated, pair[2])
          /\ (\A x \in ForeignSuffixes(m_plat) : ~EndsWith(m_pattern, x)) =>
                m_translated = m_pattern
          /\ (m_plat = "linux" /\ EndsWith(m_pattern, ExtSo)) => m_translated = m_pattern
    /\ m_pc = "translate_extension_again" => m_again = m_translated

\* C21 witness: on win32 a name in ".so" was translated to the name in ".pyd",
\* and translating that again left it as it was
C21_Witness ==
    /\ m_pc = "translate_extension_again"
    /\ m_plat = "win32"
    /\ m_pattern = <<"a", "/", "a">> \o ExtSo
    /\ m_translated = <<"a", "/", "a">> \o ExtPyd
    /\ m_again = m_translated


\* p occurs in f as a whole run of path components: an occurrence that begins
\* at the start of f or after a separator and ends at the end of f or before a
\* separator
WholeComponents(f, p) ==
    \E i \in 1..(Len(f) - Len(p) + 1) :
        /\ SubSeq(f, i, i + Len(p) - 1) = p
        /\ i = 1 \/ f[i - 1] = "/"
        /\ i + Len(p) - 1 = Len(f) \/ f[i + Len(p)] = "/"

\* _matches_hatch_pattern was called with a pattern without glob metacharacters
BareHatchPattern == m_pc = "_matches_hatch_pattern" /\ ~is_glob(m_pattern)

RECURSIVE JoinComponents(_)
JoinComponents(cs) ==
    IF cs = <<>> THEN <<>>
    ELSE IF Len(cs) = 1 THEN cs[1]
    ELSE cs[1] \o <<"/">> \o JoinComponents(Tail(cs))

\* the name without its first path component; a name of one component as it is
WithoutFirstComponent(name) ==
    IF Len(Components(name)) = 1 THEN name ELSE JoinComponents(Tail(Components(name)))

\* how often x occurs in the list
Occurrences(s, x) == Cardinality({i \in 1..Len(s) : s[i] = x})

\* listing holds exactly the entries of names, as often, in ascending order
IsSortedListingOf(listing, names) ==
    /\ \A x \in ToSet(listing) \cup ToSet(names) : Occurrences(listing, x) = Occurrences(names, x)
    /\ \A i, j \in 1..Len(listing) : i < j => ~StrLess(listing[j], listing[i])

\* the member is a directory entry
IsDirectoryEntry(m) == EndsWith(m.name, <<"/">>)

\* the member is a regular file
IsRegularFile(m) == m.isfile

\* the names of the archive's members that are not directory entries
NonDirectoryNames ==
    LET NotDirectory(m) == ~IsDirectoryEntry(m)
        kept == SelectSeq(k_members, NotDirectory)
    IN  [i \in 1..Len(kept) |-> kept[i].name]

\* the names of the archive's members that are regular files
RegularFileNames ==
    LET kept == SelectSeq(k_members, IsRegularFile)
    IN  [i \in 1..Len(kept) |-> kept[i].name]

\* each name without its first component
Stripped(names) == [i \in 1..Len(names) |-> WithoutFirstComponent(names[i])]

\* the path of the sdist in the other container format
OtherFormat(path) == IF EndsWith(path, TAR_GZ) THEN join(DIST, N_ZIP) ELSE join(DIST, N_TGZ)

\* the example of C23: the archive holds root/a.toml and root/sub/b.py
ListingExample == ToSet(k_members) = {File(F_A_TOML), File(F_SUB_B_PY)}

\* C23 as stated: list_sdist_files returns the sorted list of the archive's
\* members that are not directory entries, each without its first path
\* component, the same for a gzip tar and a zip that hold the same members;
\* list_wheel_files returns the sorted names of the members that are not
\* directory entries, as they are
C23_AsStated ==
    /\ k_pc = "list_sdist_files" =>
          /\ IsSortedListingOf(k_listing, Stripped(NonDirectoryNames))
          /\ k_listing = list_sdist_files(OtherFormat(k_path), k_members)
    /\ k_pc = "list_wheel_files" => IsSortedListingOf(k_listing, NonDirectoryNames)

\* C23, what the code does: for a zip the members kept are those that are not
\* directory entries, for a gzip tar those that are regular files, so a link
\* member is listed from a zip and left out from a gzip tar; the two listings
\* agree when every member is a regular file or a directory; the archive with
\* root/a.toml and root/sub/b.py gives a.toml, sub/b.py in both formats
C23_TarKeepsRegularFilesOnly ==
    /\ k_pc = "list_sdist_files" =>
          /\ EndsWith(k_path, ZIP) => IsSortedListingOf(k_listing, Stripped(NonDirectoryNames))
          /\ EndsWith(k_path, TAR_GZ) => IsSortedListingOf(k_listing, Stripped(RegularFileNames))
          /\ (\A i \in 1..Len(k_members) : IsRegularFile(k_members[i]) \/ IsDirectoryEntry(k_members[i]))
                => k_listing = list_sdist_files(OtherFormat(k_path), k_members)
          /\ ListingExample => k_listing = <<<<"a", ".", "t", "o", "m", "l">>, <<"s", "u", "b", "/", "b", ".", "p", "y">>>>
    /\ k_pc = "list_wheel_files" =>
          /\ IsSortedListingOf(k_listing, NonDirectoryNames)
          /\ ListingExample => k_listing = <<F_A_TOML, F_SUB_B_PY>>

\* C23 witness: a gzip tar holds root/a.toml and the link root/l.py, and the
\* listing is a.toml alone
C23_Witness ==
    /\ k_pc = "list_sdist_files"
    /\ EndsWith(k_path, TAR_GZ)
    /\ k_members = <<Link(F_L_PY), File(F_A_TOML)>>
    /\ k_listing = <<<<"a", ".", "t", "o", "m", "l">>>>


\* the positions in the scanned listing of the entries with a recognized sdist
\* suffix, and of those with the wheel suffix
SdistEntries ==
    {i \in 1..Len(k_dir.names) : EndsWith(k_dir.names[i], TAR_GZ) \/ EndsWith(k_dir.names[i], ZIP)}

WheelEntries == {i \in 1..Len(k_dir.names) : EndsWith(k_dir.names[i], WHL)}

\* the path of the entry at the position Pick chooses, None for no position
EntryAt(positions, Pick(_)) ==
    IF positions = {} THEN None ELSE join(DIST, k_dir.names[Pick(positions)])

\* find_dist_files returns (None, None) for a missing directory, otherwise the
\* entry of each kind that Pick chooses, None for a kind without entry
FindsEntries(Pick(_)) ==
    k_pc = "find_dist_files" =>
        IF ~k_dir.exists THEN k_found = <<None, None>>
        ELSE k_found = <<EntryAt(SdistEntries, Pick), EntryAt(WheelEntries, Pick)>>

\* C24 as stated: find_dist_files returns (None, None) for a directory that
\* does not exist; otherwise its sdist component is the first entry, in listing
\* order, that ends in .tar.gz or .zip, and its wheel component the first entry
\* that ends in .whl, None where there is none, also when the directory holds
\* several archives of one kind
C24_AsStated == FindsEntries(SeqMin)

\* C24 amended: as stated, with the last entry of each kind in listing order in
\* place of the first
C24_LastEntryWins == FindsEntries(SeqMax)

\* C24 witness: the directory lists a gzip tar and then a zip and no wheel,
\* and the sdist returned is the zip
C24_Witness ==
    /\ k_pc = "find_dist_files"
    /\ k_dir = Dir(<<N_TGZ, N_ZIP>>)
    /\ k_found = <<join(DIST, N_ZIP), None>>


\* the positions of an element in a command
PositionsOf(cmd, x) == {i \in 1..Len(cmd) : cmd[i] = x}

\* the element right after "--outdir" is the output directory and the source
\* directory is the last element
WellFormedCommand(cmd) ==
    /\ \E i \in PositionsOf(cmd, "--outdir") : i < Len(cmd) /\ cmd[i + 1] = "output_dir"
    /\ cmd[Len(cmd)] = "source_dir"

\* "--no-isolation" is in the command exactly when no_isolation is set
FlagAsRequested(cmd) == (PositionsOf(cmd, "--no-isolation") # {}) <=> a_no_isolation

\* C25 as stated: in every command build_dists issues, the combined build and
\* each retry, with or without no_isolation, the element right after "--outdir"
\* is the output directory, the source directory is the last element, and
\* "--no-isolation" is in the command exactly when no_isolation is set
C25_AsStated ==
    \A k \in 1..Len(runs) : WellFormedCommand(runs[k].cmd) /\ FlagAsRequested(runs[k].cmd)

\* C25, what the code does: the flag is in the command exactly when
\* no_isolation is set and the source directory is last; without the flag the
\* output directory follows "--outdir"; with the flag, "--no-isolation" follows
\* "--outdir" and the output directory comes after it
C25_FlagSplitsOutdir ==
    \A k \in 1..Len(runs) :
        LET cmd == runs[k].cmd
        IN  /\ FlagAsRequested(cmd)
            /\ cmd[Len(cmd)] = "source_dir"
            /\ ~a_no_isolation => WellFormedCommand(cmd)
            /\ a_no_isolation =>
                  \E i \in PositionsOf(cmd, "--outdir") :
                      /\ i + 2 < Len(cmd)
                      /\ cmd[i + 1] = "--no-isolation"
                      /\ cmd[i + 2] = "output_dir"

\* C25 witness: with no_isolation set the combined build and both retries were
\* issued, each with "--no-isolation" right after "--outdir"
C25_Witness ==
    /\ a_no_isolation
    /\ Len(runs) = 3
    /\ \A k \in 1..3 :
          \E i \in PositionsOf(runs[k].cmd, "--outdir") : runs[k].cmd[i + 1] = "--no-isolation"


\* the paths the errors of one kind name
NamedBy(kind) ==
    UNION {ToSet(k_errors[i].files) : i \in {j \in 1..Len(k_errors) : k_errors[j].kind = kind}}

\* at most one "extra" error and one "missing" error, and no other
AtMostOneOfEach ==
    /\ Len(k_errors) <= 2
    /\ Len(ErrorsOfKind("extra")) <= 1
    /\ Len(ErrorsOfKind("missing")) <= 1
    /\ \A i \in 1..Len(k_errors) : k_errors[i].kind \in {"extra", "missing"}

\* C26 as stated: check_sdist_vs_vcs never names as missing a path that is in
\* the sdist member list it was given, never names as extra a path that is in
\* the VCS file list, the paths named as missing and as extra are disjoint, and
\* at most two errors, one "extra" and one "missing", are returned
C26_AsStated ==
    k_pc = "check_sdist_vs_vcs" =>
        /\ NamedBy("missing") \cap ToSet(k_files) = {}
        /\ NamedBy("extra") \cap ToSet(k_vcs) = {}
        /\ NamedBy("missing") \cap NamedBy("extra") = {}
        /\ AtMostOneOfEach

\* C26, what the code does: as stated, except that a path named as missing may
\* be in the sdist member list when it is generated metadata (PKG-INFO or an
\* .egg-info path) that is also tracked; every path named as missing is tracked
\* and every path named as extra is in the sdist member list
C26_MissingMayNameGeneratedMember ==
    k_pc = "check_sdist_vs_vcs" =>
        /\ \A f \in NamedBy("missing") \cap ToSet(k_files) : GeneratedMetadata(f)
        /\ NamedBy("missing") \subseteq ToSet(k_vcs)
        /\ NamedBy("extra") \cap ToSet(k_vcs) = {}
        /\ NamedBy("extra") \subseteq ToSet(k_files)
        /\ NamedBy("missing") \cap NamedBy("extra") = {}
        /\ AtMostOneOfEach

\* C26 witness: the sdist holds a tracked .egg-info file and an untracked
\* built library, and the call returns an "extra" error naming the library
\* and a "missing" error naming the .egg-info file that the sdist holds
C26_Witness ==
    /\ k_pc = "check_sdist_vs_vcs"
    /\ Len(k_errors) = 2
    /\ k_errors[1].kind = "extra"
    /\ k_errors[2].kind = "missing"
    /\ F_EGG_SOURCES \in ToSet(k_files) \cap ToSet(k_vcs)
    /\ k_errors[2].files = <<F_EGG_SOURCES>>


\* the errors recorded because an archive kind was not found, in order
PresenceErrors == SelectSeq(errors, IsPresenceError)

\* the errors the checks of the located archives produced, in order
CheckErrors == SelectSeq(errors, LAMBDA e : ~IsPresenceError(e))

\* exactly one of the two kinds was located
OneKindFound == (sdist_path = None) # (wheel_path = None)

\* the kind that was not located, when exactly one was
AbsentKind == IF sdist_path = None THEN "sdist" ELSE "wheel"

\* the checks that ran are of the given kind only
OnlyChecksOf(kind) == \A i \in 1..Len(ran) : ran[i][1] = kind

\* C27: when check_dist returns after taking the archives from a pre-built
\* directory, given by the caller or auto-detected, in which exactly one kind
\* was found, one error for the missing kind is recorded and the result is
\* failure whatever the checks of the found kind gave; when it returns after
\* its own build left exactly one kind, no error is recorded for the absent
\* kind, a warning line for that kind is among the messages, only checks of the
\* built kind ran and the result is success exactly when they gave no error;
\* when no archive of either kind was found, from a directory or after a build,
\* the one error recorded is "no distributions found"
C27_MissingKind ==
    pc = "returned" =>
        /\ (pre_built # None /\ OneKindFound) =>
              /\ PresenceErrors =
                    <<PlainError(IF sdist_path = None THEN "no_sdist" ELSE "no_wheel")>>
              /\ errors[1] = PresenceErrors[1]
              /\ ~success
        /\ (pre_built = None /\ OneKindFound) =>
              /\ PresenceErrors = <<>>
              /\ Msg("build_warning", AbsentKind) \in ToSet(messages)
              /\ OnlyChecksOf(IF sdist_path = None THEN "wheel" ELSE "sdist")
              /\ success <=> (CheckErrors = <<>>)
        /\ (sdist_path = None /\ wheel_path = None) =>
              /\ errors = <<PlainError("no_dists")>>
              /\ ran = <<>>
              /\ ~success

\* C27 witness: check_dist has returned failure for a directory given by the
\* caller that holds an sdist and no wheel, the sdist checks gave no error and
\* the one error is the missing wheel
C27_Witness ==
    /\ pc = "returned"
    /\ a_pre_built # None /\ pre_built = a_pre_built
    /\ sdist_path # None /\ wheel_path = None
    /\ ran # <<>>
    /\ errors = <<PlainError("no_wheel")>>
    /\ ~success

====
